---- MODULE Spec2Model ----
(***************************************************************************)
(* Wedding Helper: knowledge ingestion / retrieval and the tenant-scoped   *)
(* conversation turn, modelled from backend/src.                           *)
(*                                                                         *)
(* Text is a sequence of one-character strings.  CJK ideographs are        *)
(* written by an ASCII name ("zhu" is U+795D, "dian" is U+70B9, ...), the  *)
(* wide sentence terminators by "w.", "w!", "w?".                          *)
(***************************************************************************)
EXTENDS Integers, Sequences, FiniteSets, TLC

VARIABLES
    \* document-parser.service.ts chunkText: the loop's locals
    \* ckInput names the text (see MkText), ckSpans the ranges of the text
    \* that the pushed chunks are
    ckInput, ckStart, ckSpans, ckPc, ckIter,
    \* the SQLite database (schema.sql): one field per table, and seq, the
    \* AUTOINCREMENT counters
    db,
    \* CURRENT_TIMESTAMP, in seconds
    now,
    \* process.env.KNOWLEDGE_MODE
    knowledgeMode,
    \* POST /message handlers suspended in "await llmService.generateApology"
    pending,
    \* the last response or service result
    out

ckVars == <<ckInput, ckStart, ckSpans, ckPc, ckIter>>
appVars == <<db, now, knowledgeMode, pending, out>>
vars == <<ckInput, ckStart, ckSpans, ckPc, ckIter, db, now, knowledgeMode, pending, out>>

(***************************************************************************)
(* Characters                                                              *)
(***************************************************************************)
Terminators == {".", "!", "?", "w.", "w!", "w?"}
Whitespace == {" ", "NL", "TAB"}

\* the element of a one-element set: Only({e(v) : v \in {x}}) is e(x), with x
\* computed once
Only(S) == CHOOSE x \in S : TRUE

Min(S) == CHOOSE x \in S : \A y \in S : x <= y
Max(S) == CHOOSE x \in S : \A y \in S : x >= y

\* String.prototype.substring(a, b) as a half-open range of 0-based indices:
\* NaN/negative arguments clamp to 0, arguments beyond the length clamp to
\* the length, and the two are swapped when a > b.
Clamp(i, n) == IF i < 0 THEN 0 ELSE IF i > n THEN n ELSE i
SubLo(text, a, b) == Min({Clamp(a, Len(text)), Clamp(b, Len(text))})
SubHi(text, a, b) == Max({Clamp(a, Len(text)), Clamp(b, Len(text))})
substring(text, a, b) == SubSeq(text, SubLo(text, a, b) + 1, SubHi(text, a, b))

\* String.prototype.trim() on the range [lo, hi) of text: the range without
\* its leading and trailing whitespace (lo = hi when nothing is left).
RECURSIVE TrimLo(_, _, _)
TrimLo(text, lo, hi) ==
    IF lo < hi /\ text[lo + 1] \in Whitespace THEN TrimLo(text, lo + 1, hi) ELSE lo
RECURSIVE TrimHiFrom(_, _, _)
TrimHiFrom(text, lo, hi) ==
    IF lo < hi /\ text[hi] \in Whitespace THEN TrimHiFrom(text, lo, hi - 1) ELSE hi
TrimHi(text, lo, hi) == TrimHiFrom(text, TrimLo(text, lo, hi), hi)
trim(text) == SubSeq(text, TrimLo(text, 0, Len(text)) + 1, TrimHi(text, 0, Len(text)))

(***************************************************************************)
(* The database: schema.sql                                                *)
(***************************************************************************)
\* rows of the users table (ids come from AUTOINCREMENT, so they start at 1)
Users == {1, 2}
\* "use userId 0 for anonymous" (chat routes, line 762)
Anonymous == 0
UserIds == Users \cup {Anonymous}
\* session ids that requests carry, and that uuidv4() draws from
SessionIds == {"s1"}

EmptyDb ==
    [ chat_sessions |-> {},
      chat_messages |-> <<>>,
      guest_messages |-> <<>>,
      knowledge_documents |-> <<>>,
      knowledge_chunks |-> <<>>,
      seq |-> [chat_messages |-> 0, guest_messages |-> 0,
               knowledge_documents |-> 0, knowledge_chunks |-> 0] ]

NoOut == [op |-> "none"]

Range(f) == {f[i] : i \in DOMAIN f}

\* FOREIGN KEY (user_id) REFERENCES users(id), with PRAGMA foreign_keys = ON
UserExists(userId) == userId \in Users

\* users.role: the default admin is the first row of users
Admins == {1}
UserRole(userId) == IF userId \in Admins THEN "admin" ELSE "user"

\* verifySessionOwnership (session-authorization.middleware.ts): TRUE when
\* the request is refused with 403
Forbidden(d, userId, sessionId) ==
    /\ UserRole(userId) # "admin"
    /\ \E s \in d.chat_sessions : s.id = sessionId /\ s.user_id # userId

(***************************************************************************)
(* SessionService (services/session.service.ts)                            *)
(***************************************************************************)
SessionOf(d, sessionId) == {s \in d.chat_sessions : s.id = sessionId}
OwnSession(d, sessionId, userId) ==
    {s \in d.chat_sessions : s.id = sessionId /\ s.user_id = userId}

\* getSession: SELECT ... WHERE id = ? AND user_id = ?
getSession(d, sessionId, userId) == OwnSession(d, sessionId, userId) # {}

\* getOrCreateSession (lines 68-120).  err is "none", "collision" (the Error
\* thrown at line 95) or "constraint" (the INSERT violates a foreign key).
getOrCreateSessionMutReuseAny(d, sessionId, userId, guestName) ==
    IF SessionOf(d, sessionId) # {}
    THEN [err |-> "none", created |-> FALSE, db |-> d]
    ELSE IF ~UserExists(userId)
    THEN [err |-> "constraint", created |-> FALSE, db |-> d]
    ELSE [err |-> "none", created |-> TRUE,
          db |-> [d EXCEPT !.chat_sessions =
                     @ \cup {[id |-> sessionId, user_id |-> userId,
                              guest_name |-> guestName, title |-> ""]}]]

getOrCreateSessionMutTakeOver(d, sessionId, userId, guestName) ==
    IF OwnSession(d, sessionId, userId) # {}
    THEN [err |-> "none", created |-> FALSE, db |-> d]
    ELSE IF ~UserExists(userId)
    THEN [err |-> "constraint", created |-> FALSE, db |-> d]
    ELSE [err |-> "none", created |-> TRUE,
          db |-> [d EXCEPT !.chat_sessions =
                     @ \cup {[id |-> sessionId, user_id |-> userId,
                              guest_name |-> guestName, title |-> ""]}]]

getOrCreateSession(d, sessionId, userId, guestName) ==
    IF OwnSession(d, sessionId, userId) # {}
    THEN [err |-> "none", created |-> FALSE, db |-> d]
    ELSE IF SessionOf(d, sessionId) # {}
    THEN [err |-> "collision", created |-> FALSE, db |-> d]
    ELSE IF ~UserExists(userId)
    THEN [err |-> "constraint", created |-> FALSE, db |-> d]
    ELSE [err |-> "none", created |-> TRUE,
          db |-> [d EXCEPT !.chat_sessions =
                     @ \cup {[id |-> sessionId, user_id |-> userId,
                              guest_name |-> guestName, title |-> ""]}]]

addMessageMutNoOwnerCheck(d, ts, sessionId, userId, role, content, tokensUsed) ==
    LET got == getOrCreateSessionMutReuseAny(d, sessionId, userId, "")
        id == got.db.seq.chat_messages + 1
        row == [id |-> id, session_id |-> sessionId, user_id |-> userId,
                role |-> role, content |-> content, tokens_used |-> tokensUsed,
                created_at |-> ts]
    IN IF got.err # "none"
       THEN [err |-> "add_failed", cause |-> got.err, db |-> d]
       ELSE [err |-> "none", cause |-> "none",
             db |-> [got.db EXCEPT !.chat_messages = Append(@, row),
                                   !.seq.chat_messages = id]]

\* addMessage (lines 151-169): any error is rethrown as
\* "Failed to add message to session"
addMessage(d, ts, sessionId, userId, role, content, tokensUsed) ==
    LET got == getOrCreateSession(d, sessionId, userId, "")
        id == got.db.seq.chat_messages + 1
        row == [id |-> id, session_id |-> sessionId, user_id |-> userId,
                role |-> role, content |-> content, tokens_used |-> tokensUsed,
                created_at |-> ts]
    IN IF got.err # "none"
       THEN [err |-> "add_failed", cause |-> got.err, db |-> d]
       ELSE [err |-> "none", cause |-> "none",
             db |-> [got.db EXCEPT !.chat_messages = Append(@, row),
                                   !.seq.chat_messages = id]]

\* the rows a query "WHERE session_id = ? AND user_id = ?" sees
MessagesOf(d, sessionId, userId) ==
    SelectSeq(d.chat_messages,
               LAMBDA m : m.session_id = sessionId /\ m.user_id = userId)

LLMMessage(row) == [role |-> row.role, content |-> row.content]

\* ORDER BY created_at only: rows inserted within the same second have equal
\* created_at, and SQL leaves their relative order open.  SQLite returns them
\* in the order of the scan it picks, by ascending or by descending rowid.
TieBreaks == {"rowid_asc", "rowid_desc"}

\* r comes before q in a result ordered by the key (ascending or not)
ComesBefore(r, q, key, asc, tie) ==
    \/ IF asc THEN r[key] < q[key] ELSE r[key] > q[key]
    \/ /\ r[key] = q[key]
       /\ IF tie = "rowid_asc" THEN r.id < q.id ELSE r.id > q.id

\* the rows of a table in the order of ORDER BY key [ASC | DESC]
OrderBy(rows, key, asc, tie) ==
    Only({ [k \in 1..Cardinality(all) |->
              CHOOSE r \in all :
                  Cardinality({q \in all : ComesBefore(q, r, key, asc, tie)}) = k - 1]
           : all \in {Range(rows)} })

CreatedAt == "created_at"

\* LIMIT n
Limit(rows, n) == SubSeq(rows, 1, IF Len(rows) < n THEN Len(rows) ELSE n)

Reverse(q) == [i \in 1..Len(q) |-> q[Len(q) + 1 - i]]

\* getRecentMessages (lines 196-212): the possible results, as rows
getRecentMessages(d, sessionId, userId, limit) ==
    {Reverse(Limit(OrderBy(MessagesOf(d, sessionId, userId), CreatedAt, FALSE, tie), limit)) :
        tie \in TieBreaks}

\* getMessages (lines 175-190): ORDER BY created_at ASC
getMessages(d, sessionId, userId) ==
    {OrderBy(MessagesOf(d, sessionId, userId), CreatedAt, TRUE, tie) : tie \in TieBreaks}

clearSessionMutWithCurated(d, sessionId, userId) ==
    [d EXCEPT !.chat_messages =
                  SelectSeq(@, LAMBDA m : ~(m.session_id = sessionId /\ m.user_id = userId)),
              !.guest_messages =
                  SelectSeq(@, LAMBDA m : ~(m.session_id = sessionId /\ m.user_id = userId))]

clearSessionMutAnyUser(d, sessionId, userId) ==
    [d EXCEPT !.chat_messages = SelectSeq(@, LAMBDA m : m.session_id # sessionId)]

\* clearSession (lines 239-251)
clearSession(d, sessionId, userId) ==
    [d EXCEPT !.chat_messages =
        SelectSeq(@, LAMBDA m : ~(m.session_id = sessionId /\ m.user_id = userId))]

deleteSessionMutNoCascade(d, sessionId, userId) ==
    IF OwnSession(d, sessionId, userId) = {}
    THEN [deleted |-> FALSE, db |-> d]
    ELSE [deleted |-> TRUE,
          db |-> [d EXCEPT !.chat_sessions = @ \ OwnSession(d, sessionId, userId)]]

\* deleteSession (lines 257-270); chat_messages and guest_messages rows go
\* with their session (ON DELETE CASCADE)
deleteSession(d, sessionId, userId) ==
    IF OwnSession(d, sessionId, userId) = {}
    THEN [deleted |-> FALSE, db |-> d]
    ELSE [deleted |-> TRUE,
          db |-> [d EXCEPT
                    !.chat_sessions = @ \ OwnSession(d, sessionId, userId),
                    !.chat_messages = SelectSeq(@, LAMBDA m : m.session_id # sessionId),
                    !.guest_messages = SelectSeq(@, LAMBDA m : m.session_id # sessionId)]]

\* updateSessionTitle (lines 276-288): UPDATE ... WHERE id = ? AND user_id = ?
updateSessionTitle(d, sessionId, userId, title) ==
    [d EXCEPT !.chat_sessions =
        {IF s.id = sessionId /\ s.user_id = userId THEN [s EXCEPT !.title = title] ELSE s :
            s \in @}]

saveGuestMessageMutKind(d, ts, sessionId, userId, guestName, messageType, content) ==
    LET id == d.seq.guest_messages + 1
        row == [id |-> id, session_id |-> sessionId, user_id |-> userId,
                guest_name |-> guestName, message_type |-> "message",
                content |-> content, is_read |-> 0, created_at |-> ts]
    IN IF SessionOf(d, sessionId) = {} \/ ~UserExists(userId) \/ Len(content) = 0
       THEN [err |-> "save_failed", db |-> d]
       ELSE [err |-> "none",
             db |-> [d EXCEPT !.guest_messages = Append(@, row),
                              !.seq.guest_messages = id]]

\* saveGuestMessage (lines 294-312)
saveGuestMessage(d, ts, sessionId, userId, guestName, messageType, content) ==
    LET id == d.seq.guest_messages + 1
        row == [id |-> id, session_id |-> sessionId, user_id |-> userId,
                guest_name |-> guestName, message_type |-> messageType,
                content |-> content, is_read |-> 0, created_at |-> ts]
    IN IF SessionOf(d, sessionId) = {} \/ ~UserExists(userId) \/ Len(content) = 0
       THEN [err |-> "save_failed", db |-> d]
       ELSE [err |-> "none",
             db |-> [d EXCEPT !.guest_messages = Append(@, row),
                              !.seq.guest_messages = id]]

\* getGuestMessages (lines 318-346): WHERE user_id = ? [AND message_type = ?]
\* [AND is_read = 0] ORDER BY created_at DESC; messageType "" is no filter
getGuestMessages(d, userId, messageType, unreadOnly) ==
    {OrderBy(SelectSeq(d.guest_messages,
                       LAMBDA g : /\ g.user_id = userId
                                  /\ (messageType # "" => g.message_type = messageType)
                                  /\ (unreadOnly => g.is_read = 0)),
             CreatedAt, FALSE, tie) : tie \in TieBreaks}

\* markGuestMessageAsRead (lines 351-363): UPDATE ... WHERE id = ? AND user_id = ?
markGuestMessageAsReadMutAnyOwner(d, messageId, userId) ==
    [d EXCEPT !.guest_messages =
        [i \in DOMAIN @ |-> IF @[i].id = messageId
                            THEN [@[i] EXCEPT !.is_read = 1] ELSE @[i]]]

markGuestMessageAsRead(d, messageId, userId) ==
    [d EXCEPT !.guest_messages =
        [i \in DOMAIN @ |-> IF @[i].id = messageId /\ @[i].user_id = userId
                            THEN [@[i] EXCEPT !.is_read = 1] ELSE @[i]]]

\* getUserSessions (lines 218-233): the caller's session rows
getUserSessions(d, userId) == {s \in d.chat_sessions : s.user_id = userId}

(***************************************************************************)
(* DocumentParserService.chunkText                                         *)
(***************************************************************************)
ChunkSize == 500
ChunkOverlap == 50

\* text.substring(startIndex, endIndex).search(/[terminator][\s\n]/g):
\* the index, relative to the start of the substring, of the FIRST
\* terminator that is followed by whitespace inside the substring; -1 if none.
SentenceSearch(text, startIndex, endIndex) ==
    LET lo == SubLo(text, startIndex, endIndex)
        hi == SubHi(text, startIndex, endIndex)
        hits == {i \in lo..(hi - 2) : /\ text[i + 1] \in Terminators
                                      /\ text[i + 2] \in Whitespace}
    IN IF hits = {} THEN -1 ELSE Min(hits) - lo

\* lines 165-176: where the window that starts at startIndex is cut
ChunkEnd(text, startIndex, chunkSize) ==
    LET endIndex == startIndex + chunkSize
    IN IF endIndex < Len(text)
       THEN LET sentenceEnd == SentenceSearch(text, startIndex, endIndex)
            IN IF sentenceEnd # -1 THEN startIndex + sentenceEnd + 2 ELSE endIndex
       ELSE Len(text)

\* One iteration of the while loop (lines 164-191).
\* span is the range of the source the pushed chunk was cut from, after trim.
ChunkIter(text, startIndex, chunkSize, overlap) ==
    Only({ LET lo == SubLo(text, startIndex, endIndex)
               hi == SubHi(text, startIndex, endIndex)
               from == TrimLo(text, lo, hi)
               to == TrimHi(text, lo, hi)
           IN [ endIndex |-> endIndex,
                chunk |-> SubSeq(text, from + 1, to),
                span |-> <<from, to>>,
                next |-> endIndex - overlap,
                brk |-> (endIndex - overlap) >= Len(text) - overlap ]
           : endIndex \in {ChunkEnd(text, startIndex, chunkSize)} })

\* Loop bound of the model: iterations of the chunker loop that are followed.
MaxChunkIter == 6

RECURSIVE ChunkLoop(_, _, _, _, _, _)
ChunkLoop(text, chunkSize, overlap, startIndex, chunks, fuel) ==
    IF ~(startIndex < Len(text)) THEN [done |-> TRUE, chunks |-> chunks]
    ELSE IF fuel = 0 THEN [done |-> FALSE, chunks |-> chunks]
    ELSE Only({ IF it.brk
                THEN [done |-> TRUE,
                      chunks |-> IF Len(it.chunk) > 0 THEN Append(chunks, it.chunk) ELSE chunks]
                ELSE ChunkLoop(text, chunkSize, overlap, it.next,
                               IF Len(it.chunk) > 0 THEN Append(chunks, it.chunk) ELSE chunks,
                               fuel - 1)
                : it \in {ChunkIter(text, startIndex, chunkSize, overlap)} })

\* chunkText(text, chunkSize, overlap): done = FALSE when the loop is still
\* running after MaxChunkIter iterations.
chunkText(text, chunkSize, overlap) ==
    IF Len(text) <= chunkSize THEN [done |-> TRUE, chunks |-> <<text>>]
    ELSE ChunkLoop(text, chunkSize, overlap, 0, <<>>, MaxChunkIter)

(***************************************************************************)
(* KnowledgeService (services/knowledge.service.ts)                        *)
(***************************************************************************)
\* [一-龥], by ASCII name
CJK == {"hun", "li", "dian", "ji", "yan", "zhu", "gong", "xi", "xing", "fu", "bai",
        "nian", "hao", "he", "bai2", "tou", "xie", "lao", "mei", "man", "yong",
        "jie", "tong", "xin", "tian", "chang", "di", "jiu", "xin2", "kuai", "le",
        "zao", "sheng", "gui", "zi", "jia", "ou", "cheng", "lian", "li3", "qin",
        "se", "he2", "ming", "qing", "wen", "shen", "me", "na", "li2", "ru", "he3",
        "zen", "yang", "wei", "duo", "shao", "shei", "shi", "er", "ma", "ne",
        "neng", "fou", "ke", "yi", "shi4", "kai", "jiang", "zai", "xia", "wu"}
LowerLetters == {"a", "b", "h", "i", "p", "m"}
UpperLetters == {"A", "B", "H", "I", "P", "M"}
Digits == {"0", "1", "2", "3", "4", "5", "6", "7", "8", "9"}

\* String.prototype.toLowerCase, character by character
LowerChar(c) ==
    CASE c = "A" -> "a" [] c = "B" -> "b" [] c = "H" -> "h"
      [] c = "I" -> "i" [] c = "P" -> "p" [] c = "M" -> "m" [] OTHER -> c
toLowerCase(text) == [i \in 1..Len(text) |-> LowerChar(text[i])]

IsAlnum(c) == c \in LowerLetters \cup Digits

\* kw occurs in text as a contiguous run (LIKE '%kw%', String.includes)
Contains(text, kw) ==
    \E i \in 1..(Len(text) - Len(kw) + 1) : \A k \in 1..Len(kw) : text[i + k - 1] = kw[k]

StartsWith(text, kw) == Len(text) >= Len(kw) /\ SubSeq(text, 1, Len(kw)) = kw

\* retrieveContext lines 486-497: the keywords of a query
ExtractKeywords(query) ==
    LET q == toLowerCase(query)
        n == Len(q)
        chineseChars == {<<q[i]>> : i \in {j \in 1..n : q[j] \in CJK}}
        englishWords ==
            {SubSeq(q, i, j) : <<i, j>> \in
                {w \in (1..n) \X (1..n) :
                    /\ w[1] < w[2]
                    /\ \A k \in w[1]..w[2] : IsAlnum(q[k])
                    /\ (w[1] = 1 \/ ~IsAlnum(q[w[1] - 1]))
                    /\ (w[2] = n \/ ~IsAlnum(q[w[2] + 1]))}}
    IN chineseChars \cup englishWords

DefaultMaxChunks == 5

ChunkIndex == "chunk_index"
UploadDate == "upload_date"

\* retrieveContext (lines 476-548): the possible results, each the selected
\* rows in order (the method returns their chunk_text)
retrieveContextMutAllUsers(d, userId, query, maxChunks) ==
    LET keywords == ExtractKeywords(query)
        hits == SelectSeq(d.knowledge_chunks,
                    LAMBDA c : \E lowered \in {toLowerCase(c.chunk_text)} :
                                  \E kw \in keywords : Contains(lowered, kw))
    IN IF keywords = {} THEN {<<>>}
       ELSE {Limit(OrderBy(hits, ChunkIndex, TRUE, tie), maxChunks) : tie \in TieBreaks}

retrieveContextMutNoLimit(d, userId, query, maxChunks) ==
    LET keywords == ExtractKeywords(query)
        hits == SelectSeq(d.knowledge_chunks,
                    LAMBDA c : /\ c.user_id = userId
                               /\ \E lowered \in {toLowerCase(c.chunk_text)} :
                                     \E kw \in keywords : Contains(lowered, kw))
    IN IF keywords = {} THEN {<<>>}
       ELSE {OrderBy(hits, ChunkIndex, TRUE, tie) : tie \in TieBreaks}

retrieveContextMutAllKeywords(d, userId, query, maxChunks) ==
    LET keywords == ExtractKeywords(query)
        hits == SelectSeq(d.knowledge_chunks,
                    LAMBDA c : /\ c.user_id = userId
                               /\ \E lowered \in {toLowerCase(c.chunk_text)} :
                                     \A kw \in keywords : Contains(lowered, kw))
    IN IF keywords = {} THEN {<<>>}
       ELSE {Limit(OrderBy(hits, ChunkIndex, TRUE, tie), maxChunks) : tie \in TieBreaks}

retrieveContext(d, userId, query, maxChunks) ==
    LET keywords == ExtractKeywords(query)
        hits == SelectSeq(d.knowledge_chunks,
                    LAMBDA c : /\ c.user_id = userId
                               /\ \E lowered \in {toLowerCase(c.chunk_text)} :
                                     \E kw \in keywords : Contains(lowered, kw))
    IN IF keywords = {} THEN {<<>>}
       ELSE {Limit(OrderBy(hits, ChunkIndex, TRUE, tie), maxChunks) : tie \in TieBreaks}

\* Array.prototype.join with the separator "\n\n---\n\n"
Separator == <<"NL", "NL", "-", "-", "-", "NL", "NL">>
RECURSIVE Join(_)
Join(parts) ==
    IF Len(parts) = 0 THEN <<>>
    ELSE IF Len(parts) = 1 THEN parts[1]
    ELSE parts[1] \o Separator \o Join(Tail(parts))

ChunkTexts(rows) == [i \in 1..Len(rows) |-> rows[i].chunk_text]

\* the header and text of one document in the full text (line 574); the
\* file name is one token
DocBlock(doc) == <<"DOC:", doc.original_filename, "NL">> \o doc.content_text

\* the documents retrieveContextFullText selects (lines 559-565): the possible
\* results, as rows
FullTextDocs(d, userId) ==
    LET own == SelectSeq(d.knowledge_documents, LAMBDA doc : doc.user_id = userId)
    IN {OrderBy(own, UploadDate, TRUE, tie) : tie \in TieBreaks}

FullTextOf(docs) == Join([i \in 1..Len(docs) |-> DocBlock(docs[i])])

\* retrieveContextFullText (lines 555-591): the possible results
retrieveContextFullText(d, userId) == {FullTextOf(docs) : docs \in FullTextDocs(d, userId)}

(***************************************************************************)
(* Prompts (prompts/wedding-assistant.prompts.ts)                          *)
(***************************************************************************)
\* generateGreeting (lines 354-364): the canned greeting, with the guest's
\* name when one is given
generateGreeting(guestName) ==
    IF guestName # "" THEN <<"GREETING", guestName>> ELSE <<"GREETING">>

blessingKeywords ==
    { <<"zhu">>, <<"gong", "xi">>, <<"xing", "fu">>, <<"bai", "nian", "hao", "he">>,
      <<"bai2", "tou", "xie", "lao">>, <<"gong", "zhu">>, <<"zhu", "fu">>,
      <<"mei", "man">>, <<"yong", "jie", "tong", "xin">>,
      <<"tian", "chang", "di", "jiu">>, <<"xin2", "hun", "kuai", "le">>,
      <<"zao", "sheng", "gui", "zi">>, <<"jia", "ou", "tian", "cheng">>,
      <<"xi", "jie", "lian", "li3">>, <<"qin", "se", "he2", "ming">> }

questionKeywords ==
    { <<"?">>, <<"w?">>, <<"qing", "wen">>, <<"shen", "me">>, <<"na", "li2">>,
      <<"ji", "dian">>, <<"ru", "he3">>, <<"zen", "me">>, <<"zen", "yang">>,
      <<"wei", "shen", "me">>, <<"duo", "shao">>, <<"shei">>, <<"he3", "shi">>,
      <<"na", "er">>, <<"ma">>, <<"ne">>, <<"neng", "fou">>, <<"ke", "yi">>,
      <<"shi4", "fou">> }

detectMessageTypeMutBlessingFirst(message) ==
    IF \E kw \in blessingKeywords : Contains(message, kw) THEN "blessing"
    ELSE IF \E kw \in questionKeywords : Contains(message, kw) THEN "question"
    ELSE "message"

\* detectMessageType (lines 371-413)
detectMessageType(message) ==
    LET lowerMessage == toLowerCase(message)
        blessingMatches == Cardinality({kw \in blessingKeywords : Contains(message, kw)})
        questionMatches ==
            Cardinality({kw \in questionKeywords :
                Contains(message, kw) \/ Contains(lowerMessage, toLowerCase(kw))})
    IN IF blessingMatches > 0 /\ questionMatches = 0 THEN "blessing"
       ELSE IF questionMatches > 0 THEN "question"
       ELSE IF StartsWith(message, <<"zhu">>) \/ StartsWith(message, <<"gong", "xi">>)
       THEN "blessing"
       ELSE "message"

\* buildSystemPromptWithContext (lines 420-438): the base prompt followed by
\* the knowledge section, or by the no-knowledge notice
buildSystemPromptWithContext(ragContext) ==
    IF Len(ragContext) = 0 \/ Len(trim(ragContext)) = 0
    THEN [base |-> "WEDDING_ASSISTANT_SYSTEM_PROMPT", notice |-> TRUE, context |-> <<>>]
    ELSE [base |-> "WEDDING_ASSISTANT_SYSTEM_PROMPT", notice |-> FALSE, context |-> ragContext]

\* getSystemPrompt (lines 513-515): the base prompt alone
getSystemPrompt(style) ==
    [base |-> "WEDDING_ASSISTANT_SYSTEM_PROMPT", notice |-> FALSE, context |-> <<>>]

MaxMessageLength == 1000

\* text.replace(/\s+/g, ' ')
CollapseWhitespace(text) ==
    LET keep == {i \in 1..Len(text) :
                    text[i] \notin Whitespace \/ i = 1 \/ text[i - 1] \notin Whitespace}
        Nth(k) == CHOOSE i \in keep : Cardinality({j \in keep : j < i}) = k - 1
        Blank(c) == IF c \in Whitespace THEN " " ELSE c
    IN IF Cardinality(keep) = Len(text)
       THEN [k \in 1..Len(text) |-> Blank(text[k])]
       ELSE [k \in 1..Cardinality(keep) |-> Blank(text[Nth(k)])]

\* validateGuestMessage (lines 458-473)
validateGuestMessage(message) ==
    IF Len(message) = 0 \/ Len(trim(message)) = 0
    THEN [valid |-> FALSE, sanitized |-> <<>>, error |-> "empty"]
    ELSE IF Len(trim(message)) > MaxMessageLength
    THEN [valid |-> FALSE, sanitized |-> <<>>, error |-> "too_long"]
    ELSE [valid |-> TRUE, sanitized |-> CollapseWhitespace(trim(message)), error |-> "none"]

(***************************************************************************)
(* DocumentParserService: validateFile, parseDocument, cleanText           *)
(***************************************************************************)
MaxFileSize == 10 * 1024 * 1024

\* allowedTypes of validateFile (line 221)
AllowedTypes == {"pdf", "docx", "doc", "txt", "md", "markdown"}
\* CHECK(file_type IN (...)) of knowledge_documents (schema.sql)
SchemaFileTypes == {"pdf", "docx", "txt", "md", "doc"}

validateFileMutNoSizeCap(size, fileType) == fileType \in AllowedTypes

\* validateFile (lines 208-231): TRUE when it does not throw
validateFile(size, fileType) == size <= MaxFileSize /\ fileType \in AllowedTypes

\* cleanText (lines 133-144): /\s+/g -> ' ', then trim (the second replace
\* finds no newline left)
cleanText(text) == Only({trim(cleaned) : cleaned \in {CollapseWhitespace(text)}})

\* parseDocument (lines 21-66) of a file whose extracted text is file.raw
parseDocument(file) == cleanText(file.raw)

(***************************************************************************)
(* KnowledgeService: ingestion and deletion                                *)
(***************************************************************************)
NoFault == -1

InsertChunksMutOneBased(d, documentId, userId, chunks, stored) ==
    [d EXCEPT !.knowledge_chunks =
                  @ \o [i \in 1..stored |->
                          [id |-> d.seq.knowledge_chunks + i,
                           document_id |-> documentId, user_id |-> userId,
                           chunk_text |-> chunks[i], chunk_index |-> i]],
              !.seq.knowledge_chunks = @ + stored]

\* lines 141-148: the first stored of the chunk INSERTs
InsertChunks(d, documentId, userId, chunks, stored) ==
    [d EXCEPT !.knowledge_chunks =
                  @ \o [i \in 1..stored |->
                          [id |-> d.seq.knowledge_chunks + i,
                           document_id |-> documentId, user_id |-> userId,
                           chunk_text |-> chunks[i], chunk_index |-> i - 1]],
              !.seq.knowledge_chunks = @ + stored]

\* lines 116-148: the document row, then the chunk rows of the parsed text
StoreDocument(d, ts, userId, file, failAt, text, chunked) ==
    LET documentId == d.seq.knowledge_documents + 1
        withDoc == [d EXCEPT !.knowledge_documents =
                        Append(@, [id |-> documentId, user_id |-> userId,
                                   original_filename |-> file.originalname,
                                   file_type |-> file.ext, file_size |-> file.size,
                                   content_text |-> text, upload_date |-> ts]),
                               !.seq.knowledge_documents = documentId]
        n == Len(chunked.chunks)
        stored == IF failAt \in 0..(n - 1) THEN failAt ELSE n
    IN IF ~chunked.done
       THEN [err |-> "hang", db |-> withDoc, documentId |-> documentId, chunksCount |-> 0]
       ELSE [err |-> IF stored < n THEN "storage" ELSE "none",
             db |-> InsertChunks(withDoc, documentId, userId, chunked.chunks, stored),
             documentId |-> documentId, chunksCount |-> n]

\* uploadDocument (lines 73-178).  failAt is the index of the chunk INSERT at
\* which the storage fails (NoFault: it does not).  Every db.execute commits
\* on its own: what was written before a throw stays.  err is "none" or what
\* ended the upload; "hang" is chunkText never returning.
uploadDocument(d, ts, userId, file, failAt) ==
    IF ~validateFile(file.size, file.ext)
    THEN [err |-> "invalid_file", db |-> d, documentId |-> 0, chunksCount |-> 0]
    ELSE Only({
        IF Len(text) = 0 \/ Len(trim(text)) = 0
        THEN [err |-> "no_text", db |-> d, documentId |-> 0, chunksCount |-> 0]
        ELSE IF file.ext \notin SchemaFileTypes \/ ~UserExists(userId) \/ file.size <= 0
        THEN [err |-> "constraint", db |-> d, documentId |-> 0, chunksCount |-> 0]
        ELSE Only({StoreDocument(d, ts, userId, file, failAt, text, chunked)
                   : chunked \in {chunkText(text, ChunkSize, ChunkOverlap)}})
        : text \in {parseDocument(file)} })

\* getDocument (lines 301-325): WHERE id = ? AND user_id = ?
getDocument(d, documentId, userId) ==
    SelectSeq(d.knowledge_documents, LAMBDA doc : doc.id = documentId /\ doc.user_id = userId)

\* deleteDocument (lines 330-378); the chunks go with their document
\* (ON DELETE CASCADE)
deleteDocument(d, documentId, userId) ==
    IF Len(getDocument(d, documentId, userId)) = 0
    THEN [deleted |-> FALSE, db |-> d]
    ELSE [deleted |-> TRUE,
          db |-> [d EXCEPT
                    !.knowledge_documents = SelectSeq(@, LAMBDA doc : doc.id # documentId),
                    !.knowledge_chunks = SelectSeq(@, LAMBDA c : c.document_id # documentId)]]

\* deleteAllDocuments (lines 383-423)
deleteAllDocuments(d, userId) ==
    LET mine == {doc.id : doc \in {x \in Range(d.knowledge_documents) : x.user_id = userId}}
    IN [changes |-> Cardinality(mine),
        db |-> [d EXCEPT
                  !.knowledge_documents = SelectSeq(@, LAMBDA doc : doc.id \notin mine),
                  !.knowledge_chunks = SelectSeq(@, LAMBDA c : c.document_id \notin mine)]]

\* the loop of uploadDocuments (lines 194-209) from file i on.  results is
\* what the method returns; errors is only logged.  A file on which
\* uploadDocument never returns stops the batch (returned = FALSE).  failAt
\* is the storage fault met by the first file.
RECURSIVE UploadFrom(_, _, _, _, _, _, _)
UploadFrom(d, ts, userId, files, failAt, i, acc) ==
    IF i > Len(files)
    THEN [db |-> d, results |-> acc.results, errors |-> acc.errors, returned |-> TRUE]
    ELSE Only({
        IF r.err = "hang"
        THEN [db |-> r.db, results |-> acc.results, errors |-> acc.errors, returned |-> FALSE]
        ELSE UploadFrom(r.db, ts, userId, files, failAt, i + 1,
                 IF r.err = "none"
                 THEN [acc EXCEPT !.results =
                          Append(@, [filename |-> files[i].originalname,
                                     documentId |-> r.documentId,
                                     chunksCount |-> r.chunksCount])]
                 ELSE [acc EXCEPT !.errors =
                          Append(@, [filename |-> files[i].originalname, error |-> r.err])])
        : r \in {uploadDocument(d, ts, userId, files[i], IF i = 1 THEN failAt ELSE NoFault)} })

\* uploadDocuments (lines 183-223)
uploadDocuments(d, ts, userId, files, failAt) ==
    UploadFrom(d, ts, userId, files, failAt, 1, [results |-> <<>>, errors |-> <<>>])

\* replaceAllDocuments (lines 229-267): deleteAllDocuments, then the batch
replaceAllDocuments(d, ts, userId, files, failAt) ==
    Only({ Only({ [db |-> up.db, deleted |-> del.changes, uploaded |-> up.results,
                   errors |-> up.errors, returned |-> up.returned]
                  : up \in {uploadDocuments(del.db, ts, userId, files, failAt)} })
           : del \in {deleteAllDocuments(d, userId)} })

(***************************************************************************)
(* LLMService.generateApology (services/llm.service.ts)                    *)
(***************************************************************************)
\* lines 128-138: the messages array sent to the provider
RequestMessages(params) ==
    <<[role |-> "system", content |-> getSystemPrompt("gentle")]>>
    \o params.history
    \o <<[role |-> "user", content |-> params.message]>>

\* this.provider (lines 216-223); everything but anthropic and gemini goes to
\* the OpenAI-compatible endpoint
Providers == {"openai", "anthropic", "gemini"}

\* openAIChatCompletion (lines 233-240): the request is posted as it is
openAIChatCompletion(messages) == [messages |-> messages]

\* anthropicChatCompletion (lines 245-259): system is the content of the first
\* system message (none: <<>>), messages are the others
anthropicChatCompletion(messages) ==
    [system |-> [i \in 1..Len(Limit(SelectSeq(messages, LAMBDA m : m.role = "system"), 1)) |->
                    SelectSeq(messages, LAMBDA m : m.role = "system")[i].content],
     messages |-> SelectSeq(messages, LAMBDA m : m.role # "system")]

\* geminiChatCompletion (lines 291-313): the other messages become contents
\* with role model or user; the system content is put in front of the text
\* of the first of them (prepended) only if that one has role user
geminiChatCompletion(messages) ==
    LET system == SelectSeq(messages, LAMBDA m : m.role = "system")
        conversation == SelectSeq(messages, LAMBDA m : m.role # "system")
        Role(m) == IF m.role = "assistant" THEN "model" ELSE "user"
    IN [contents |->
          [i \in 1..Len(conversation) |->
             [role |-> Role(conversation[i]),
              text |-> conversation[i].content,
              prepended |-> IF i = 1 /\ Len(system) > 0 /\ Role(conversation[1]) = "user"
                            THEN <<system[1].content>> ELSE <<>>]]]

(***************************************************************************)
(* POST /api/chat/message (routes/chat.routes.ts)                          *)
(***************************************************************************)
HistoryLimit == 10

\* the catch blocks of the two retrieval methods (lines 540-547, 584-590): a
\* storage error is logged and the empty result returned
retrieveContextCatchMutStale(d, userId, query, maxChunks, storageFails) ==
    retrieveContext(d, userId, query, maxChunks)

retrieveContextCatch(d, userId, query, maxChunks, storageFails) ==
    IF storageFails THEN {<<>>} ELSE retrieveContext(d, userId, query, maxChunks)

retrieveContextFullTextCatch(d, userId, storageFails) ==
    IF storageFails THEN {<<>>} ELSE retrieveContextFullText(d, userId)

\* which of the retrieval calls of a turn meet a storage error
StorageFaults == {"none", "keyword", "fulltext", "both"}

\* lines 843-915: the context retrieved for a turn; the possible results
TurnContextMutNoFallback(d, mode, userId, message, faults) ==
    IF mode = "fulltext"
    THEN retrieveContextFullTextCatch(d, userId, faults \in {"fulltext", "both"})
    ELSE UNION {
        IF Len(rows) > 0 THEN {Join(ChunkTexts(rows))} ELSE {<<>>}
        : rows \in retrieveContextCatch(d, userId, message, DefaultMaxChunks,
                                        faults \in {"keyword", "both"})}

TurnContext(d, mode, userId, message, faults) ==
    IF mode = "fulltext"
    THEN retrieveContextFullTextCatch(d, userId, faults \in {"fulltext", "both"})
    ELSE UNION {
        IF Len(rows) > 0 THEN {Join(ChunkTexts(rows))}
        ELSE IF mode = "hybrid"
        THEN retrieveContextFullTextCatch(d, userId, faults \in {"fulltext", "both"})
        ELSE {<<>>}
        : rows \in retrieveContextCatch(d, userId, message, DefaultMaxChunks,
                                        faults \in {"keyword", "both"})}

\* lines 823-933, a turn on an existing session up to the call of the
\* provider: nothing is written; turn is the suspended handler.  seqAtStart
\* and historyIds are kept for the claims: the last message id when the
\* handler was entered, and the ids of the rows the history was read from.
StartTurnMutSaveFirst(d, ts, userId, sessionId, message, guestName, ragContext, history) ==
    LET saved == addMessage(d, ts, sessionId, userId, "user", message, 0).db
        late == CHOOSE h \in getRecentMessages(saved, sessionId, userId, HistoryLimit) : TRUE
        hist == [i \in 1..Len(late) |-> LLMMessage(late[i])]
        systemPrompt == buildSystemPromptWithContext(ragContext)
        params == [message |-> message, history |-> hist, systemPrompt |-> systemPrompt]
    IN [ userId |-> userId, sessionId |-> sessionId, message |-> message,
         guestName |-> guestName,
         messageType |-> detectMessageType(message),
         history |-> hist,
         historyIds |-> {late[i].id : i \in 1..Len(late)},
         seqAtStart |-> d.seq.chat_messages,
         ragContext |-> ragContext,
         systemPrompt |-> systemPrompt,
         sent |-> RequestMessages(params) ]

StartTurn(d, ts, userId, sessionId, message, guestName, ragContext, history) ==
    LET hist == [i \in 1..Len(history) |-> LLMMessage(history[i])]
        systemPrompt == buildSystemPromptWithContext(ragContext)
        params == [message |-> message, history |-> hist, systemPrompt |-> systemPrompt]
    IN [ userId |-> userId, sessionId |-> sessionId, message |-> message,
         guestName |-> guestName,
         messageType |-> detectMessageType(message),
         history |-> hist,
         historyIds |-> {history[i].id : i \in 1..Len(history)},
         seqAtStart |-> d.seq.chat_messages,
         ragContext |-> ragContext,
         systemPrompt |-> systemPrompt,
         sent |-> RequestMessages(params) ]

\* uuidv4(): an id no session has
FreshIds(d) == {id \in SessionIds : SessionOf(d, id) = {}}

\* The handler up to its first await or its response.  sessionId is "" when
\* the request carries none; tick tells whether the second has turned
\* since the last write.  out keeps the request next to the response:
\* requested and message are the request's fields, existed tells whether a
\* session of the requested id existed when the handler was entered.
PostMessage(userId, sessionId, message, guestName, tick, faults) ==
    LET validation == validateGuestMessage(message)
        existed == sessionId # "" /\ SessionOf(db, sessionId) # {}
        req == [op |-> "postMessage", userId |-> userId, requested |-> sessionId,
                message |-> message, existed |-> existed]
    IN IF Len(message) = 0 \/ ~validation.valid
       THEN \* lines 773-786
            /\ out' = req @@ [status |-> 400, error |-> "ValidationError"]
            /\ UNCHANGED <<db, now, pending>>
       ELSE \E currentSessionId \in (IF sessionId = "" THEN FreshIds(db) ELSE {sessionId}) :
            IF ~getSession(db, currentSessionId, userId)
            THEN \* lines 797-821
                 LET created == getOrCreateSession(db, currentSessionId, userId, guestName)
                     greeting == generateGreeting(guestName)
                     added == addMessage(created.db, now + tick, currentSessionId, userId,
                                         "assistant", greeting, 0)
                 IN IF created.err # "none" \/ added.err # "none"
                    THEN /\ db' = IF created.err # "none" THEN db ELSE created.db
                         /\ out' = req @@ [status |-> 500, sessionId |-> currentSessionId,
                                           error |-> "ChatError",
                                           cause |-> IF created.err # "none" THEN created.err
                                                     ELSE added.cause]
                         /\ UNCHANGED <<now, pending>>
                    ELSE /\ db' = added.db
                         /\ now' = now + tick
                         /\ out' = req @@ [status |-> 200, sessionId |-> currentSessionId,
                                           response |-> greeting, isNewSession |-> TRUE]
                         /\ UNCHANGED pending
            ELSE \* lines 823-933
                 \E history \in getRecentMessages(db, currentSessionId, userId, HistoryLimit),
                    ragContext \in TurnContext(db, knowledgeMode, userId, validation.sanitized, faults) :
                    /\ pending' = Append(pending,
                          StartTurn(db, now, userId, currentSessionId, validation.sanitized,
                                    guestName, ragContext, history))
                    /\ out' = req @@ [status |-> 0, sessionId |-> currentSessionId,
                                      storageFaults |-> faults]
                    /\ UNCHANGED <<db, now>>

RemoveAt(q, i) == SubSeq(q, 1, i - 1) \o SubSeq(q, i + 1, Len(q))

\* lines 935-986: the provider answered the i-th suspended handler
LLMSuccessMutReplyFirst(i, apology, tokensUsed, tick) ==
    /\ i \in DOMAIN pending
    /\ LET t == pending[i]
           ts == now + tick
           reply == addMessage(db, ts, t.sessionId, t.userId, "assistant", apology, tokensUsed)
           user == addMessage(reply.db, ts, t.sessionId, t.userId, "user", t.message, 0)
       IN /\ pending' = RemoveAt(pending, i)
          /\ user.err = "none" /\ reply.err = "none"
          /\ out' = [op |-> "llmResponse", userId |-> t.userId, turn |-> t, status |-> 200,
                     sessionId |-> t.sessionId, response |-> apology,
                     messageType |-> t.messageType, tokensUsed |-> tokensUsed,
                     userMessageId |-> user.db.seq.chat_messages]
          /\ db' = user.db
          /\ now' = ts
    /\ UNCHANGED knowledgeMode

LLMSuccessMutInOrder(i, apology, tokensUsed, tick) ==
    /\ i \in DOMAIN pending /\ i = 1
    /\ LET t == pending[i]
           ts == now + tick
           user == addMessage(db, ts, t.sessionId, t.userId, "user", t.message, 0)
           guest == IF t.messageType = "blessing"
                    THEN saveGuestMessage(user.db, ts, t.sessionId, t.userId,
                            IF t.guestName # "" THEN t.guestName ELSE "ANONYMOUS_GUEST",
                            t.messageType, t.message)
                    ELSE [err |-> "none", db |-> user.db]
           reply == addMessage(guest.db, ts, t.sessionId, t.userId, "assistant",
                               apology, tokensUsed)
       IN /\ pending' = RemoveAt(pending, i)
          /\ IF user.err # "none"
             THEN /\ out' = [op |-> "llmResponse", userId |-> t.userId, turn |-> t, status |-> 500,
                             error |-> "ChatError"]
                  /\ UNCHANGED <<db, now>>
             ELSE IF guest.err # "none" \/ reply.err # "none"
             THEN /\ out' = [op |-> "llmResponse", userId |-> t.userId, turn |-> t, status |-> 500,
                             error |-> "ChatError"]
                  /\ db' = IF guest.err # "none" THEN user.db ELSE guest.db
                  /\ now' = ts
             ELSE /\ out' = [op |-> "llmResponse", userId |-> t.userId, turn |-> t, status |-> 200,
                             sessionId |-> t.sessionId, response |-> apology,
                             messageType |-> t.messageType, tokensUsed |-> tokensUsed,
                             userMessageId |-> user.db.seq.chat_messages]
                  /\ db' = reply.db
                  /\ now' = ts
    /\ UNCHANGED knowledgeMode

LLMSuccess(i, apology, tokensUsed, tick) ==
    /\ i \in DOMAIN pending
    /\ LET t == pending[i]
           ts == now + tick
           user == addMessage(db, ts, t.sessionId, t.userId, "user", t.message, 0)
           guest == IF t.messageType = "blessing"
                    THEN saveGuestMessage(user.db, ts, t.sessionId, t.userId,
                            IF t.guestName # "" THEN t.guestName ELSE "ANONYMOUS_GUEST",
                            t.messageType, t.message)
                    ELSE [err |-> "none", db |-> user.db]
           reply == addMessage(guest.db, ts, t.sessionId, t.userId, "assistant",
                               apology, tokensUsed)
       IN /\ pending' = RemoveAt(pending, i)
          /\ IF user.err # "none"
             THEN /\ out' = [op |-> "llmResponse", userId |-> t.userId, turn |-> t, status |-> 500,
                             error |-> "ChatError"]
                  /\ UNCHANGED <<db, now>>
             ELSE IF guest.err # "none" \/ reply.err # "none"
             THEN /\ out' = [op |-> "llmResponse", userId |-> t.userId, turn |-> t, status |-> 500,
                             error |-> "ChatError"]
                  /\ db' = IF guest.err # "none" THEN user.db ELSE guest.db
                  /\ now' = ts
             ELSE /\ out' = [op |-> "llmResponse", userId |-> t.userId, turn |-> t, status |-> 200,
                             sessionId |-> t.sessionId, response |-> apology,
                             messageType |-> t.messageType, tokensUsed |-> tokensUsed,
                             userMessageId |-> user.db.seq.chat_messages]
                  /\ db' = reply.db
                  /\ now' = ts
    /\ UNCHANGED knowledgeMode

\* lines 987-1004: what the catch block leaves in the database when the
\* generation of turn t has failed
FailTurnMutKeepUser(d, ts, t) ==
    addMessage(d, ts, t.sessionId, t.userId, "user", t.message, 0).db

FailTurn(d, ts, t) == d

\* types/index.ts 248-259: new LLMError(code, message, originalError, statusCode)
LLMError(code, statusCode) ==
    [name |-> "LLMError", code |-> code, response |-> 0, statusCode |-> statusCode]

\* llm.service.ts 444-503: the error thrown by the provider call becomes an
\* LLMError; response is the HTTP status of error.response, 0 when there is none
handleError(error) ==
    IF error.name = "LLMError" THEN error
    ELSE IF error.name = "AxiosError"
    THEN IF error.code = "ECONNREFUSED" THEN LLMError("CONNECTION_REFUSED", 0)
         ELSE IF error.response # 0 THEN LLMError("API_ERROR", error.response)
         ELSE IF error.code \in {"ETIMEDOUT", "ECONNABORTED"} THEN LLMError("TIMEOUT", 0)
         ELSE LLMError("NETWORK_ERROR", 0)
    ELSE LLMError("UNKNOWN_ERROR", 0)

\* lines 587-615: the status code the error handler would choose for an LLMError
getErrorInfoForLLMError(error) ==
    CASE error.code = "CONNECTION_REFUSED" -> [statusCode |-> 503, errorCode |-> "LLM_CONNECTION_REFUSED"]
      [] error.code = "TIMEOUT" -> [statusCode |-> 504, errorCode |-> "LLM_TIMEOUT"]
      [] error.code = "API_ERROR" ->
            [statusCode |-> IF error.statusCode # 0 THEN error.statusCode ELSE 502,
             errorCode |-> "LLM_API_ERROR"]
      [] error.code = "NETWORK_ERROR" -> [statusCode |-> 502, errorCode |-> "LLM_NETWORK_ERROR"]
      [] OTHER -> [statusCode |-> 500, errorCode |-> "LLM_UNKNOWN_ERROR"]

\* llm.service.ts 187-210 and 437: chatCompletion wraps what the provider call
\* threw and generateApology wraps it again before throwing it to the handler
generateApologyThrows(error) == handleError(handleError(error))

\* lines 987-1004: generateApology threw this LLMError; the catch block logs it
\* (caught, with its code) and answers 500 ChatError
LLMFailure(i, error) ==
    /\ i \in DOMAIN pending
    /\ pending' = RemoveAt(pending, i)
    /\ db' = FailTurn(db, now, pending[i])
    /\ out' = [op |-> "llmResponse", userId |-> pending[i].userId, turn |-> pending[i],
               status |-> 500, error |-> "ChatError", code |-> error.code,
               caught |-> error]
    /\ UNCHANGED <<now, knowledgeMode>>

\* DELETE /api/chat/history (lines 1046-1074) after authenticate and
\* verifySessionOwnership (session-authorization.middleware.ts)
ClearHistory(userId, sessionId) ==
    /\ UserExists(userId)
    /\ IF Forbidden(db, userId, sessionId)
       THEN /\ out' = [op |-> "clearHistory", userId |-> userId, sessionId |-> sessionId,
                       status |-> 403]
            /\ UNCHANGED db
       ELSE /\ db' = clearSession(db, sessionId, userId)
            /\ out' = [op |-> "clearHistory", userId |-> userId, sessionId |-> sessionId,
                       status |-> 200]
    /\ UNCHANGED <<now, knowledgeMode, pending>>

\* DELETE /api/chat/session (lines 1080-1115)
DeleteSession(userId, sessionId) ==
    /\ UserExists(userId)
    /\ IF Forbidden(db, userId, sessionId)
       THEN /\ out' = [op |-> "deleteSession", userId |-> userId, sessionId |-> sessionId,
                       status |-> 403]
            /\ UNCHANGED db
       ELSE LET r == deleteSession(db, sessionId, userId)
            IN /\ db' = r.db
               /\ out' = [op |-> "deleteSession", userId |-> userId, sessionId |-> sessionId,
                          status |-> IF r.deleted THEN 200 ELSE 404]
    /\ UNCHANGED <<now, knowledgeMode, pending>>

(***************************************************************************)
(* The chunker loop, one iteration per step, on cleaned document texts     *)
(***************************************************************************)
\* Longest document text chunked
MaxTextLen == 1200

\* A text of n characters: letters, one space at each index of spaces and a
\* terminator followed by a space at each index of stops (0-based).
MkText(n, stops, spaces) ==
    [i \in 1..n |-> IF (i - 1) \in stops THEN "."
                    ELSE IF (i - 1) \in spaces \/ (i - 2) \in stops THEN " "
                    ELSE "a"]

\* cleanText output is trimmed and holds no run of whitespace (lines 133-144)
IsCleaned(text) ==
    /\ Len(text) > 0
    /\ text[1] \notin Whitespace
    /\ text[Len(text)] \notin Whitespace
    /\ \A i \in 1..(Len(text) - 1) : ~(text[i] \in Whitespace /\ text[i + 1] \in Whitespace)

ChunkLens == {1, ChunkSize, ChunkSize + 1, ChunkSize + ChunkOverlap, 600,
              2 * ChunkSize - ChunkOverlap, 2 * ChunkSize - ChunkOverlap + 1, MaxTextLen}
ChunkStops == {{}, {2}, {ChunkOverlap - 3}, {ChunkOverlap - 2}, {ChunkOverlap - 1},
               {200}, {ChunkSize - 2}, {200, 300}, {200, 700}, {ChunkSize + 200}}
ChunkSpaces == {{}, {ChunkSize - ChunkOverlap}, {ChunkSize - 1}, {100, 300}}

ChunkInputs ==
    {in \in [n : ChunkLens, stops : ChunkStops, spaces : ChunkSpaces] :
        IsCleaned(MkText(in.n, in.stops, in.spaces))}

\* the text being chunked, and the chunks pushed so far
ckText == MkText(ckInput.n, ckInput.stops, ckInput.spaces)
ckChunks == [k \in 1..Len(ckSpans) |-> SubSeq(ckText, ckSpans[k][1] + 1, ckSpans[k][2])]

ChunkInit ==
    /\ ckInput \in ChunkInputs
    /\ ckStart = 0
    /\ ckSpans = <<>>
    /\ ckIter = 0
    /\ ckPc = "start"
    /\ db = EmptyDb
    /\ now = 0
    /\ knowledgeMode = "hybrid"
    /\ pending = <<>>
    /\ out = NoOut

ChunkEnterMutEmpty ==
    /\ ckPc = "start"
    /\ ckPc' = IF Len(ckText) <= ChunkSize THEN "done" ELSE "loop"
    /\ UNCHANGED <<ckInput, ckStart, ckIter, ckSpans>>
    /\ UNCHANGED appVars

\* lines 156-161
ChunkEnter ==
    /\ ckPc = "start"
    /\ IF Len(ckText) <= ChunkSize
       THEN /\ ckSpans' = <<(<<0, Len(ckText)>>)>>
            /\ ckPc' = "done"
       ELSE /\ ckPc' = "loop"
            /\ UNCHANGED ckSpans
    /\ UNCHANGED <<ckInput, ckStart, ckIter>>
    /\ UNCHANGED appVars

\* lines 163-192: one iteration
ChunkStep ==
    /\ ckPc = "loop"
    /\ ckIter < MaxChunkIter
    /\ IF ~(ckStart < Len(ckText))
       THEN /\ ckPc' = "done"
            /\ UNCHANGED <<ckStart, ckSpans, ckIter>>
       ELSE LET it == ChunkIter(ckText, ckStart, ChunkSize, ChunkOverlap)
            IN /\ ckSpans' = IF Len(it.chunk) > 0 THEN Append(ckSpans, it.span) ELSE ckSpans
               /\ ckStart' = it.next
               /\ ckIter' = ckIter + 1
               /\ ckPc' = IF it.brk THEN "done" ELSE "loop"
    /\ UNCHANGED ckInput
    /\ UNCHANGED appVars

ChunkNext == ChunkEnter \/ ChunkStep

SpecChunk == ChunkInit /\ [][ChunkNext]_vars

(***************************************************************************)
(* Knowledge base operations (routes/knowledge.routes.ts -> service)       *)
(***************************************************************************)
\* whether the second turns before a write
Ticks(limit) == IF now < limit THEN {0, 1} ELSE {0}

UploadDocument(userId, file, failAt, tick) ==
    \E r \in {uploadDocument(db, now + tick, userId, file, failAt)} :
       /\ db' = r.db
       /\ now' = IF r.db # db THEN now + tick ELSE now
       /\ out' = [op |-> "uploadDocument", userId |-> userId, file |-> file.originalname,
                  err |-> r.err, documentId |-> r.documentId, chunksCount |-> r.chunksCount]
       /\ UNCHANGED <<knowledgeMode, pending>>

DeleteDocument(userId, documentId) ==
    \E r \in {deleteDocument(db, documentId, userId)} :
       /\ db' = r.db
       /\ out' = [op |-> "deleteDocument", userId |-> userId, documentId |-> documentId,
                  deleted |-> r.deleted]
       /\ UNCHANGED <<now, knowledgeMode, pending>>

DeleteAllDocuments(userId) ==
    \E r \in {deleteAllDocuments(db, userId)} :
       /\ db' = r.db
       /\ out' = [op |-> "deleteAllDocuments", userId |-> userId, changes |-> r.changes]
       /\ UNCHANGED <<now, knowledgeMode, pending>>

RetrieveContext(userId, query, maxChunks) ==
    /\ \E rows \in retrieveContext(db, userId, query, maxChunks) :
          out' = [op |-> "retrieveContext", userId |-> userId, query |-> query,
                  maxChunks |-> maxChunks, ids |-> [i \in 1..Len(rows) |-> rows[i].id]]
    /\ UNCHANGED <<db, now, knowledgeMode, pending>>

RetrieveContextFullText(userId) ==
    /\ \E docs \in FullTextDocs(db, userId) :
          out' = [op |-> "retrieveContextFullText", userId |-> userId,
                  ids |-> [i \in 1..Len(docs) |-> docs[i].id]]
    /\ UNCHANGED <<db, now, knowledgeMode, pending>>

FileNames(files) == [i \in 1..Len(files) |-> files[i].originalname]

UploadDocuments(userId, files, failAt, tick) ==
    \E r \in {uploadDocuments(db, now + tick, userId, files, failAt)} :
       /\ db' = r.db
       /\ now' = IF r.db # db THEN now + tick ELSE now
       /\ out' = [op |-> "uploadDocuments", userId |-> userId, files |-> FileNames(files),
                  returned |-> r.returned,
                  results |-> IF r.returned THEN r.results ELSE <<>>]
       /\ UNCHANGED <<knowledgeMode, pending>>

ReplaceAllDocuments(userId, files, failAt, tick) ==
    \E r \in {replaceAllDocuments(db, now + tick, userId, files, failAt)} :
       /\ db' = r.db
       /\ now' = IF r.db # db THEN now + tick ELSE now
       /\ out' = [op |-> "replaceAllDocuments", userId |-> userId, files |-> FileNames(files),
                  returned |-> r.returned,
                  deleted |-> IF r.returned THEN r.deleted ELSE 0,
                  uploaded |-> IF r.returned THEN r.uploaded ELSE <<>>]
       /\ UNCHANGED <<knowledgeMode, pending>>

\* the two retrieval methods called while the storage answers or fails
RetrieveContextCatch(userId, query, maxChunks, storageFails) ==
    /\ \E rows \in retrieveContextCatch(db, userId, query, maxChunks, storageFails) :
          out' = [op |-> "retrieveContext", userId |-> userId, query |-> query,
                  maxChunks |-> maxChunks, storageFails |-> storageFails,
                  ids |-> [i \in 1..Len(rows) |-> rows[i].id]]
    /\ UNCHANGED <<db, now, knowledgeMode, pending>>

RetrieveContextFullTextCatch(userId, storageFails) ==
    /\ \E text \in retrieveContextFullTextCatch(db, userId, storageFails) :
          out' = [op |-> "retrieveContextFullText", userId |-> userId,
                  storageFails |-> storageFails, text |-> text]
    /\ UNCHANGED <<db, now, knowledgeMode, pending>>

(***************************************************************************)
(* Inputs                                                                  *)
(***************************************************************************)
\* uploaded files: name, extension, size on disk and the text the parser
\* extracts
VenueFile ==
    [originalname |-> "venue.txt", ext |-> "txt", size |-> 9,
     raw |-> <<"hun", "li", " ", "NL", "dian", " ", "6", "P", "M">>]
MenuFile ==
    [originalname |-> "menu.md", ext |-> "md", size |-> 4,
     raw |-> <<"yan", " ", "h", "i">>]
LongFile ==
    [originalname |-> "long.txt", ext |-> "txt", size |-> ChunkSize + 1,
     raw |-> MkText(ChunkSize + 1, {}, {})]
StoryFile ==
    [originalname |-> "story.txt", ext |-> "txt", size |-> ChunkSize + 1,
     raw |-> MkText(ChunkSize + 1, {2}, {})]
BlankFile ==
    [originalname |-> "blank.txt", ext |-> "txt", size |-> 2, raw |-> <<" ", "NL">>]
NotesFile ==
    [originalname |-> "notes.markdown", ext |-> "markdown", size |-> 2, raw |-> <<"a", "a">>]
HugeFile ==
    [originalname |-> "huge.txt", ext |-> "txt", size |-> MaxFileSize + 1, raw |-> <<"a", "a">>]
ProgramFile ==
    [originalname |-> "setup.exe", ext |-> "exe", size |-> 2, raw |-> <<"a", "a">>]
Files == {VenueFile, LongFile, StoryFile, BlankFile, NotesFile, HugeFile,
          ProgramFile}

Queries == {<<"ji", "dian", "w?">>, <<"a", "a">>, <<"6", "p", "m">>, <<"a", " ", "w?">>}
Messages == {<<>>, <<" ">>, <<"zhu", "fu">>, <<"ji", "dian", " ", " ", "w?">>}
GuestNames == {"", "Li"}
Modes == {"hybrid", "rag", "fulltext"}
\* what the provider answers: a text, or no text with finish reason stop
Replies == {<<"R">>, <<>>}
\* what the provider call throws: connection refused, timeout, an error
\* response of the provider (HTTP 429), another network error, a plain Error
ConnectionRefused == [name |-> "AxiosError", code |-> "ECONNREFUSED", response |-> 0, statusCode |-> 0]
TimedOut == [name |-> "AxiosError", code |-> "ETIMEDOUT", response |-> 0, statusCode |-> 0]
Rejected == [name |-> "AxiosError", code |-> "ERR_BAD_REQUEST", response |-> 429, statusCode |-> 0]
ProviderErrors == {ConnectionRefused, TimedOut, Rejected,
                   [name |-> "AxiosError", code |-> "ERR_NETWORK", response |-> 0, statusCode |-> 0],
                   [name |-> "Error", code |-> "", response |-> 0, statusCode |-> 0]}
\* the files of one batch request
Batches == {<<VenueFile, ProgramFile, MenuFile>>, <<MenuFile, VenueFile>>,
            <<NotesFile>>, <<StoryFile, NotesFile>>}

\* Bounds of the model
MaxDocs == 2
MaxNow == 1
MaxMsgs == 3
MaxPending == 1
MaxFailAt == 1
MaxUploadNow == 1
MaxBatchDocs == 3
MaxFaultDocs == 1

(***************************************************************************)
(* Knowledge base specification                                            *)
(***************************************************************************)
Idle ==
    /\ ckInput = [n |-> 1, stops |-> {}, spaces |-> {}]
    /\ ckStart = 0
    /\ ckSpans = <<>>
    /\ ckIter = 0
    /\ ckPc = "idle"

InitKB ==
    /\ Idle
    /\ db = EmptyDb
    /\ now = 0
    /\ knowledgeMode = "hybrid"
    /\ pending = <<>>
    /\ out = NoOut

Upload ==
    /\ db.seq.knowledge_documents < MaxDocs
    /\ \E userId \in Users, file \in Files, failAt \in {NoFault, MaxFailAt},
          tick \in Ticks(MaxUploadNow) :
          UploadDocument(userId, file, failAt, tick)
    /\ UNCHANGED ckVars

Delete ==
    /\ \E userId \in Users, documentId \in 1..MaxDocs : DeleteDocument(userId, documentId)
    /\ UNCHANGED ckVars

DeleteAll ==
    /\ \E userId \in Users : DeleteAllDocuments(userId)
    /\ UNCHANGED ckVars

Retrieve ==
    /\ \E userId \in UserIds, query \in Queries, maxChunks \in {1, DefaultMaxChunks} :
          RetrieveContext(userId, query, maxChunks)
    /\ UNCHANGED ckVars

RetrieveFullText ==
    /\ \E userId \in UserIds : RetrieveContextFullText(userId)
    /\ UNCHANGED ckVars

UploadBatch ==
    /\ \E userId \in Users, files \in Batches, failAt \in {NoFault, 0},
          tick \in Ticks(MaxUploadNow) :
          /\ UploadDocuments(userId, files, failAt, tick)
          /\ db'.seq.knowledge_documents <= MaxBatchDocs
    /\ UNCHANGED ckVars

ReplaceAll ==
    /\ \E userId \in Users, files \in Batches, failAt \in {NoFault, 0},
          tick \in Ticks(MaxUploadNow) :
          /\ ReplaceAllDocuments(userId, files, failAt, tick)
          /\ db'.seq.knowledge_documents <= MaxBatchDocs
    /\ UNCHANGED ckVars

NextKB == Upload \/ Delete \/ DeleteAll \/ Retrieve \/ RetrieveFullText

SpecKB == InitKB /\ [][NextKB]_vars

(***************************************************************************)
(* Conversation specification                                              *)
(***************************************************************************)
\* knowledge bases the service can hold when a conversation starts: none,
\* and one document of each tenant
VenueKB == uploadDocument(EmptyDb, 0, 1, VenueFile, NoFault).db
BothKB == Only({uploadDocument(d, 0, 2, MenuFile, NoFault).db : d \in {VenueKB}})
InitDbs == {EmptyDb, BothKB}

(***************************************************************************)
(* Batch ingestion specification                                           *)
(***************************************************************************)
InitBatch ==
    /\ Idle
    /\ db \in InitDbs
    /\ now = 0
    /\ knowledgeMode = "hybrid"
    /\ pending = <<>>
    /\ out = NoOut

NextBatch == UploadBatch \/ ReplaceAll \/ RetrieveFullText

SpecBatch == InitBatch /\ [][NextBatch]_vars

Init ==
    /\ Idle
    /\ db \in InitDbs
    /\ now = 0
    /\ knowledgeMode \in Modes
    /\ pending = <<>>
    /\ out = NoOut

Post ==
    /\ db.seq.chat_messages + 2 * Len(pending) < MaxMsgs
    /\ Len(pending) < MaxPending
    /\ \E userId \in UserIds, sessionId \in SessionIds \cup {""}, message \in Messages,
          guestName \in GuestNames, tick \in Ticks(MaxNow) :
          PostMessage(userId, sessionId, message, guestName, tick, "none")
    /\ UNCHANGED <<knowledgeMode, ckVars>>

Respond ==
    /\ \E i \in DOMAIN pending, apology \in Replies, tick \in Ticks(MaxNow) :
          LLMSuccess(i, apology, Len(apology), tick)
    /\ UNCHANGED ckVars

Fail ==
    /\ \E i \in DOMAIN pending, error \in ProviderErrors :
          LLMFailure(i, generateApologyThrows(error))
    /\ UNCHANGED ckVars

Clear ==
    /\ \E userId \in Users, sessionId \in SessionIds : ClearHistory(userId, sessionId)
    /\ UNCHANGED ckVars

Drop ==
    /\ \E userId \in Users, sessionId \in SessionIds : DeleteSession(userId, sessionId)
    /\ UNCHANGED ckVars

Next == Post \/ Respond \/ Fail \/ Clear \/ Drop

Spec == Init /\ [][Next]_vars

(***************************************************************************)
(* Session lifecycle specification: two tenants and two session ids, with  *)
(* several turns waiting for the provider at the same time                 *)
(***************************************************************************)
MaxLifeMsgs == 4
MaxLifePending == 2
MaxLifeDocs == 1
LifeSessionIds == {"s1", "s2"}
LifeMessages == {<<"zhu", "fu">>}
Titles == {"T"}

InitLife ==
    /\ Idle
    /\ db = EmptyDb
    /\ now = 0
    /\ knowledgeMode = "rag"
    /\ pending = <<>>
    /\ out = NoOut

LifePost ==
    /\ db.seq.chat_messages + 2 * Len(pending) < MaxLifeMsgs
    /\ Len(pending) < MaxLifePending
    /\ \E userId \in Users, sessionId \in LifeSessionIds, message \in LifeMessages :
          PostMessage(userId, sessionId, message, "Li", 0, "none")
    /\ UNCHANGED <<knowledgeMode, ckVars>>

LifeRespond ==
    /\ \E i \in DOMAIN pending : LLMSuccess(i, <<"R">>, 1, 0)
    /\ UNCHANGED ckVars

LifeFail ==
    /\ \E i \in DOMAIN pending : LLMFailure(i, generateApologyThrows(TimedOut))
    /\ UNCHANGED ckVars

LifeClear ==
    /\ \E userId \in Users, sessionId \in LifeSessionIds : ClearHistory(userId, sessionId)
    /\ UNCHANGED ckVars

LifeDrop ==
    /\ \E userId \in Users, sessionId \in LifeSessionIds : DeleteSession(userId, sessionId)
    /\ UNCHANGED ckVars

\* SessionService.updateSessionTitle called for a tenant and a session id
LifeRename ==
    /\ \E userId \in Users, sessionId \in LifeSessionIds, title \in Titles :
          /\ db' = updateSessionTitle(db, sessionId, userId, title)
          /\ out' = [op |-> "updateSessionTitle", userId |-> userId, sessionId |-> sessionId,
                     title |-> title]
    /\ UNCHANGED <<now, knowledgeMode, pending, ckVars>>

\* one document of either tenant next to the sessions
LifeUpload ==
    /\ db.seq.knowledge_documents < MaxLifeDocs
    /\ \E userId \in Users : UploadDocument(userId, VenueFile, NoFault, 0)
    /\ UNCHANGED ckVars

NextLife ==
    LifePost \/ LifeRespond \/ LifeFail \/ LifeClear \/ LifeDrop \/ LifeRename \/ LifeUpload

SpecLife == InitLife /\ [][NextLife]_vars

(***************************************************************************)
(* Stalled provider specification: turns of one tenant on two sessions,    *)
(* answered by the provider in any order or not at all                     *)
(***************************************************************************)
MaxStallMsgs == 5
StallUser == 2

StallPost ==
    /\ db.seq.chat_messages + 2 * Len(pending) < MaxStallMsgs
    /\ Len(pending) < MaxLifePending
    /\ \E sessionId \in LifeSessionIds, message \in LifeMessages :
          PostMessage(StallUser, sessionId, message, "Li", 0, "none")
    /\ UNCHANGED <<knowledgeMode, ckVars>>

StallClear ==
    /\ \E sessionId \in LifeSessionIds : ClearHistory(StallUser, sessionId)
    /\ UNCHANGED ckVars

StallDrop ==
    /\ \E sessionId \in LifeSessionIds : DeleteSession(StallUser, sessionId)
    /\ UNCHANGED ckVars

NextStall == StallPost \/ LifeRespond \/ LifeFail \/ StallClear \/ StallDrop

SpecStall == InitLife /\ [][NextStall]_vars

(***************************************************************************)
(* Curated messages specification: each tenant has a session and receives  *)
(* blessings, which are listed and marked as read                          *)
(***************************************************************************)
MaxCuratedMsgs == 6
\* req.query.type; "" is a request without it
MessageTypes == {"", "blessing", "question"}

CuratedPost ==
    /\ db.seq.chat_messages + 2 * Len(pending) < MaxCuratedMsgs
    /\ Len(pending) < MaxPending
    /\ \E userId \in Users, message \in LifeMessages :
          PostMessage(userId, IF userId = StallUser THEN "s2" ELSE "s1", message, "Li", 0, "none")
    /\ UNCHANGED <<knowledgeMode, ckVars>>

\* PATCH /api/chat/guest-messages/:messageId/read (lines 1203-1236)
MarkRead ==
    /\ \E userId \in Users, messageId \in 1..MaxCuratedMsgs :
          /\ db' = markGuestMessageAsRead(db, messageId, userId)
          /\ out' = [op |-> "markGuestMessageAsRead", userId |-> userId,
                     messageId |-> messageId, status |-> 200]
    /\ UNCHANGED <<now, knowledgeMode, pending, ckVars>>

\* GET /api/chat/guest-messages (lines 1181-1201) and GET /api/chat/blessings
ListCurated ==
    /\ \E userId \in Users, messageType \in MessageTypes, unreadOnly \in BOOLEAN :
          \E rows \in getGuestMessages(db, userId, messageType, unreadOnly) :
             out' = [op |-> "getGuestMessages", userId |-> userId, messageType |-> messageType,
                     unreadOnly |-> unreadOnly, ids |-> [i \in DOMAIN rows |-> rows[i].id]]
    /\ UNCHANGED <<db, now, knowledgeMode, pending, ckVars>>

NextCurated == CuratedPost \/ LifeRespond \/ LifeDrop \/ MarkRead \/ ListCurated

SpecCurated == InitLife /\ [][NextCurated]_vars

(***************************************************************************)
(* Cascading delete specification: documents with their chunks and a       *)
(* session with its messages are created and deleted side by side          *)
(***************************************************************************)
MaxCascadeMsgs == 3

InitCascade ==
    /\ Idle
    /\ db = EmptyDb
    /\ now = 0
    /\ knowledgeMode = "rag"
    /\ pending = <<>>
    /\ out = NoOut

CascadePost ==
    /\ db.seq.chat_messages + 2 * Len(pending) < MaxCascadeMsgs
    /\ Len(pending) < MaxPending
    /\ \E userId \in Users, sessionId \in SessionIds, message \in LifeMessages :
          PostMessage(userId, sessionId, message, "Li", 0, "none")
    /\ UNCHANGED <<knowledgeMode, ckVars>>

CascadeUpload ==
    /\ db.seq.knowledge_documents < MaxDocs
    /\ \E userId \in Users, file \in {VenueFile, LongFile}, failAt \in {NoFault, MaxFailAt} :
          UploadDocument(userId, file, failAt, 0)
    /\ UNCHANGED ckVars

NextCascade ==
    CascadePost \/ LifeRespond \/ Clear \/ Drop \/ CascadeUpload \/ Delete \/ DeleteAll

SpecCascade == InitCascade /\ [][NextCascade]_vars

(***************************************************************************)
(* One tenant, one session, many turns: the history of a long conversation *)
(***************************************************************************)
HistMaxMsgs == 12
HistMaxNow == 2
HistUser == CHOOSE userId \in Users : UserRole(userId) = "admin"
HistSession == "s1"
HistMessage == <<"ji", "dian", "w?">>

InitHist ==
    /\ Idle
    /\ db = EmptyDb
    /\ now = 0
    /\ knowledgeMode = "rag"
    /\ pending = <<>>
    /\ out = NoOut

HistPost ==
    /\ db.seq.chat_messages + 2 * Len(pending) < HistMaxMsgs
    /\ Len(pending) < MaxPending
    /\ \E tick \in Ticks(HistMaxNow) : PostMessage(HistUser, HistSession, HistMessage, "", tick, "none")
    /\ UNCHANGED <<knowledgeMode, ckVars>>

HistRespond ==
    /\ \E apology \in Replies, tick \in Ticks(HistMaxNow) : LLMSuccess(1, apology, Len(apology), tick)
    /\ UNCHANGED ckVars

HistFail ==
    /\ LLMFailure(1, generateApologyThrows(TimedOut))
    /\ UNCHANGED ckVars

NextHist == HistPost \/ HistRespond \/ HistFail

SpecHist == InitHist /\ [][NextHist]_vars

(***************************************************************************)
(* Classification specification: detectMessageType on short messages       *)
(***************************************************************************)
MaxClassifyLen == 3
ClassifyAlphabet == {"zhu", "fu", "gong", "xi", "ji", "dian", "?", "ma", "a", " "}
ClassifyInputs == UNION {[1..n -> ClassifyAlphabet] : n \in 0..MaxClassifyLen}

InitClassify ==
    /\ Idle
    /\ db = EmptyDb
    /\ now = 0
    /\ knowledgeMode = "hybrid"
    /\ pending = <<>>
    /\ out \in {[op |-> "classify", message |-> message] : message \in ClassifyInputs}

Classify ==
    /\ out.op = "classify"
    /\ out' = [op |-> "detectMessageType", message |-> out.message,
               messageType |-> detectMessageType(out.message)]
    /\ UNCHANGED <<db, now, knowledgeMode, pending, ckVars>>

NextClassify == Classify

SpecClassify == InitClassify /\ [][NextClassify]_vars

(***************************************************************************)
(* Storage fault specification: one tenant's turns, retrievals and uploads  *)
(* while the storage may fail                                              *)
(***************************************************************************)
InitFault ==
    /\ Idle
    /\ db \in InitDbs
    /\ now = 0
    /\ knowledgeMode \in Modes
    /\ pending = <<>>
    /\ out = NoOut

FaultPost ==
    /\ db.seq.chat_messages + 2 * Len(pending) < MaxMsgs
    /\ Len(pending) < MaxPending
    /\ \E message \in Messages, faults \in StorageFaults :
          PostMessage(HistUser, HistSession, message, "", 0, faults)
    /\ UNCHANGED <<knowledgeMode, ckVars>>

FaultRetrieve ==
    /\ \E query \in Queries, storageFails \in BOOLEAN :
          RetrieveContextCatch(HistUser, query, DefaultMaxChunks, storageFails)
    /\ UNCHANGED ckVars

FaultRetrieveFullText ==
    /\ \E storageFails \in BOOLEAN : RetrieveContextFullTextCatch(HistUser, storageFails)
    /\ UNCHANGED ckVars

FaultUpload ==
    /\ db.seq.knowledge_documents < MaxFaultDocs
    /\ \E file \in Files, failAt \in {NoFault, 0, MaxFailAt} :
          UploadDocument(HistUser, file, failAt, 0)
    /\ UNCHANGED ckVars

NextFault == FaultPost \/ Respond \/ Fail \/ FaultRetrieve \/ FaultRetrieveFullText \/ FaultUpload

SpecFault == InitFault /\ [][NextFault]_vars


\* every index of the source lies in the span of some segment
Covered(text, spans) ==
    \A i \in 0..(Len(text) - 1) :
        \E k \in 1..Len(spans) : spans[k][1] <= i /\ i < spans[k][2]

\* the segments in order, each after the first without its leading overlap
RECURSIVE Reassemble(_, _)
Reassemble(chunks, overlap) ==
    IF Len(chunks) = 0 THEN <<>>
    ELSE IF Len(chunks) = 1 THEN chunks[1]
    ELSE Reassemble(SubSeq(chunks, 1, Len(chunks) - 1), overlap)
         \o SubSeq(chunks[Len(chunks)], overlap + 1, Len(chunks[Len(chunks)]))

HasTerminator(text) == \E i \in 1..Len(text) : text[i] \in Terminators

(***************************************************************************)
(* Claims                                                                  *)
(***************************************************************************)
NewSessionRow(X, T, g) == [id |-> X, user_id |-> T, guest_name |-> g, title |-> ""]

C2_RetrievalIsolation ==
    \A A \in UserIds :
        /\ \A query \in Queries :
              \A rows \in retrieveContext(db, A, query, DefaultMaxChunks) :
                 \A i \in 1..Len(rows) :
                    /\ rows[i].user_id = A
                    /\ \E doc \in Range(db.knowledge_documents) :
                          doc.id = rows[i].document_id /\ doc.user_id = A
        /\ \A docs \in FullTextDocs(db, A) :
              \A i \in 1..Len(docs) : docs[i].user_id = A

\* a keyword retrieval returned chunks to a tenant while another tenant holds
\* a chunk with one of the keywords
C2_Witness ==
    /\ out.op = "retrieveContext"
    /\ Len(out.ids) > 0
    /\ \E c \in Range(db.knowledge_chunks) :
          /\ c.user_id # out.userId
          /\ \E kw \in ExtractKeywords(out.query) : Contains(toLowerCase(c.chunk_text), kw)
    /\ \A i \in 1..Len(out.ids) :
          \E c \in Range(db.knowledge_chunks) : c.id = out.ids[i] /\ c.user_id = out.userId

SessionRows(d, sessionId) == SelectSeq(d.chat_messages, LAMBDA m : m.session_id = sessionId)

\* C3: greeting invariant.  After a turn on a new session (no session id in
\* the request, or an id no session has), whatever its text, the response is
\* the greeting, the greeting is the only message of the session, with role
\* assistant, and no generation call was started for the session.
C3_GreetingInvariant ==
    (out.op = "postMessage" /\ ~out.existed) =>
        /\ out.status = 200
        /\ out.response \in {generateGreeting(g) : g \in GuestNames}
        /\ Len(SessionRows(db, out.sessionId)) = 1
        /\ SessionRows(db, out.sessionId)[1].role = "assistant"
        /\ SessionRows(db, out.sessionId)[1].content = out.response
        /\ \A i \in DOMAIN pending : pending[i].sessionId # out.sessionId

\* C4: a turn whose generation call fails persists nothing: neither the step
\* that starts the turn nor the step that ends it in the failure changes the
\* database.
C4_FailedTurnPersistsNothing ==
    [][ /\ (out'.op = "postMessage" /\ out'.status = 0) => db' = db
        /\ (out'.op = "llmResponse" /\ Len(pending') < Len(pending) /\ out'.status = 500
              /\ out'.error = "ChatError" /\ "code" \in DOMAIN out')
           => db' = db
      ]_vars

\* the generation call of a turn failed on a session that holds messages
C4_Witness ==
    /\ out.op = "llmResponse"
    /\ out.status = 500
    /\ "code" \in DOMAIN out
    /\ Len(SessionRows(db, out.turn.sessionId)) > 0

\* C5: the history given to the generation call was read before the user
\* message of the turn was written: every row of it existed when the turn
\* began, it has at most HistoryLimit messages, and the request holds the
\* current message once, after the history.
C5_HistoryReadBeforeWrite ==
    \A i \in DOMAIN pending :
        /\ \A id \in pending[i].historyIds : id <= pending[i].seqAtStart
        /\ Len(pending[i].history) <= HistoryLimit
        /\ SubSeq(pending[i].sent, 2, Len(pending[i].sent) - 1) = pending[i].history
        /\ pending[i].sent[Len(pending[i].sent)] =
              [role |-> "user", content |-> pending[i].message]

\* a turn is in flight whose history was cut to HistoryLimit messages
C5_Witness ==
    \E i \in DOMAIN pending :
        /\ Len(pending[i].history) = HistoryLimit
        /\ Len(MessagesOf(db, pending[i].sessionId, pending[i].userId)) > HistoryLimit

\* the last n rows
LastRows(rows, n) == SubSeq(rows, IF Len(rows) > n THEN Len(rows) - n + 1 ELSE 1, Len(rows))

\* C6: history ordering.  recentMessages(session, tenant, limit) is the
\* min(limit, count) most recently created messages of the session in the
\* order of their creation.
C6_HistoryOrdering ==
    \A limit \in {2, HistoryLimit} :
        \A history \in getRecentMessages(db, HistSession, HistUser, limit) :
            [i \in 1..Len(history) |-> LLMMessage(history[i])]
                = LastRows([i \in 1..Len(MessagesOf(db, HistSession, HistUser)) |->
                               LLMMessage(MessagesOf(db, HistSession, HistUser)[i])], limit)

\* C7: the request of every turn in flight is {the system prompt built for
\* the turn, the history, the current message}, the system prompt being the
\* one that embeds the context retrieved for the turn, or the no-knowledge
\* notice when nothing was retrieved.
C7_SystemPromptReachesBackend ==
    \A i \in DOMAIN pending :
        /\ pending[i].systemPrompt = buildSystemPromptWithContext(pending[i].ragContext)
        /\ pending[i].sent =
              <<[role |-> "system", content |-> pending[i].systemPrompt]>>
              \o pending[i].history
              \o <<[role |-> "user", content |-> pending[i].message]>>

DocumentChunks(d, doc) ==
    ChunkTexts(SelectSeq(d.knowledge_chunks, LAMBDA c : c.document_id = doc.id))

\* C8: ingestion is atomic: every document in the store has all the chunks
\* of its text.
C8_IngestionAtomic ==
    \A doc \in Range(db.knowledge_documents) :
        \E chunked \in {chunkText(doc.content_text, ChunkSize, ChunkOverlap)} :
            chunked.done /\ DocumentChunks(db, doc) = chunked.chunks

\* C9: chunking terminates: every iteration of the loop moves the window
\* start strictly forward (so the loop runs at most Len(text) times).
C9_WindowStartIncreases ==
    [][(ckPc = "loop" /\ ckIter' = ckIter + 1) => ckStart' > ckStart]_vars

\* C10: when chunking has returned, every character of the source lies in a
\* segment, and a source without sentence terminators is reassembled exactly
\* from the segments with the overlap removed.
C10_CoverageAndReassembly ==
    ckPc = "done" =>
        /\ Covered(ckText, ckSpans)
        /\ (~HasTerminator(ckText) => Reassemble(ckChunks, ChunkOverlap) = ckText)

\* the sentence terminators followed by whitespace inside the window that
\* starts at startIndex (0-based indices of the terminators)
WindowStops(text, startIndex, chunkSize) ==
    {i \in Clamp(startIndex, Len(text))..(startIndex + chunkSize - 2) :
        /\ i + 2 <= Len(text)
        /\ text[i + 1] \in Terminators
        /\ text[i + 2] \in Whitespace}

\* C11: a window that does not reach the end of the text and holds a sentence
\* terminator followed by whitespace is cut after the LAST such terminator
\* (terminator and whitespace included), and the next window starts overlap
\* characters before the cut.
C11_CutsAtLastTerminator ==
    [][(/\ ckPc = "loop"
        /\ ckIter' = ckIter + 1
        /\ ckStart + ChunkSize < Len(ckText)
        /\ WindowStops(ckText, ckStart, ChunkSize) # {})
       => ckStart' = Max(WindowStops(ckText, ckStart, ChunkSize)) + 2 - ChunkOverlap]_vars

DocumentsOf(d, userId) == SelectSeq(d.knowledge_documents, LAMBDA doc : doc.user_id = userId)
ChunksOf(d, userId) == SelectSeq(d.knowledge_chunks, LAMBDA c : c.user_id = userId)

\* C13: a batch upload that returned gives one result entry for every input
\* file, in input order, and every success entry names a stored document of
\* the tenant (so a batch of 3 files whose second file is unsupported returns
\* 3 entries, 2 of them successes).
C13_BatchResultPerFile ==
    (out.op = "uploadDocuments" /\ out.returned) =>
        /\ Len(out.results) = Len(out.files)
        /\ \A i \in 1..Len(out.results) :
              /\ out.results[i].filename = out.files[i]
              /\ (out.results[i].documentId # 0 =>
                    \E doc \in Range(DocumentsOf(db, out.userId)) :
                        doc.id = out.results[i].documentId)

\* C14: after replaceAllDocuments(T, files) returned, the documents of T are
\* exactly those the batch reports as ingested, every chunk of T belongs to
\* one of them, none of the earlier documents of T remains, and the documents
\* and chunks of the other tenants are as before.
C14_ReplaceAll ==
    [][(out'.op = "replaceAllDocuments" /\ out'.returned) =>
         \E T \in {out'.userId} :
         \E ingested \in {{out'.uploaded[i].documentId : i \in 1..Len(out'.uploaded)}} :
            /\ {doc.id : doc \in Range(DocumentsOf(db', T))} = ingested
            /\ \A c \in Range(ChunksOf(db', T)) : c.document_id \in ingested
            /\ \A doc \in Range(DocumentsOf(db, T)) : doc.id \notin ingested
            /\ \A U \in UserIds \ {T} :
                  /\ DocumentsOf(db', U) = DocumentsOf(db, U)
                  /\ ChunksOf(db', U) = ChunksOf(db, U)]_vars

\* C18: fulltext retrieval returns the documents of the tenant, each under
\* its file name header, in the order in which they were uploaded (newest
\* last), whatever the uploads were.
C18_FullTextNewestLast ==
    /\ \A T \in UserIds :
          retrieveContextFullText(db, T) = {FullTextOf(DocumentsOf(db, T))}
    /\ (out.op = "retrieveContextFullText" =>
          out.ids = [i \in 1..Len(DocumentsOf(db, out.userId)) |->
                        DocumentsOf(db, out.userId)[i].id])

\* the tokens of a query: its CJK ideographs, one by one, and its maximal
\* runs of more than one latin letter or digit
IsLatinOrDigit(c) == LowerChar(c) \in LowerLetters \cup Digits
QueryTokens(query) ==
    {<<query[i]>> : i \in {j \in 1..Len(query) : query[j] \in CJK}}
    \cup {SubSeq(query, w[1], w[2]) : w \in
            {v \in (1..Len(query)) \X (1..Len(query)) :
                /\ v[1] < v[2]
                /\ \A k \in v[1]..v[2] : IsLatinOrDigit(query[k])
                /\ (v[1] = 1 \/ ~IsLatinOrDigit(query[v[1] - 1]))
                /\ (v[2] = Len(query) \/ ~IsLatinOrDigit(query[v[2] + 1]))}}

ContainsIgnoreCase(text, token) ==
    \E i \in 1..(Len(text) - Len(token) + 1) :
        \A k \in 1..Len(token) : LowerChar(text[i + k - 1]) = LowerChar(token[k])

\* the chunks of tenant A that hold a token of the query
MatchingChunks(d, A, query) ==
    {c \in Range(ChunksOf(d, A)) :
        \E token \in QueryTokens(query) : ContainsIgnoreCase(c.chunk_text, token)}

\* C15: keyword retrieval always returns a list, of at most maxChunks chunks,
\* in ascending order of chunk index; it is empty for a query without tokens.
C15_AtMostMaxChunksInOrder ==
    \A A \in UserIds : \A query \in Queries : \A maxChunks \in {1, DefaultMaxChunks} :
        /\ retrieveContext(db, A, query, maxChunks) # {}
        /\ \A rows \in retrieveContext(db, A, query, maxChunks) :
              /\ Len(rows) <= maxChunks
              /\ \A i \in 1..Len(rows) : \A j \in i..Len(rows) :
                    rows[i].chunk_index <= rows[j].chunk_index
              /\ (QueryTokens(query) = {} => rows = <<>>)

\* a retrieval cut its result at maxChunks while more chunks matched
C15_Witness ==
    /\ out.op = "retrieveContext"
    /\ Len(out.ids) = out.maxChunks
    /\ Cardinality(MatchingChunks(db, out.userId, out.query)) > out.maxChunks

\* C16: without the cap, keyword retrieval returns exactly the chunks of the
\* tenant that hold at least one token of the query as a case-insensitive
\* substring.
C16_KeywordMatching ==
    \A A \in UserIds : \A query \in Queries :
        \A rows \in retrieveContext(db, A, query, Len(db.knowledge_chunks) + 1) :
            {rows[i] : i \in 1..Len(rows)} = MatchingChunks(db, A, query)

\* a retrieval for "ji dian ?" returned a chunk that holds "dian" and not
\* "ji", or one for "6pm" returned a chunk that holds "6PM"
C16_Witness ==
    /\ out.op = "retrieveContext"
    /\ out.maxChunks = DefaultMaxChunks
    /\ Len(out.ids) > 0
    /\ \/ /\ out.query = <<"ji", "dian", "w?">>
          /\ \E c \in Range(ChunksOf(db, out.userId)) :
                /\ c.id = out.ids[1]
                /\ Contains(c.chunk_text, <<"dian">>)
                /\ ~Contains(c.chunk_text, <<"ji">>)
       \/ /\ out.query = <<"6", "p", "m">>
          /\ \E c \in Range(ChunksOf(db, out.userId)) :
                c.id = out.ids[1] /\ Contains(c.chunk_text, <<"6", "P", "M">>)

C20_SuccessPersistsInOrder ==
    [][(/\ out'.op = "llmResponse"
        /\ Len(pending') < Len(pending)
        /\ "code" \notin DOMAIN out')
       => \E t \in {out'.turn} :
            IF out'.status = 200
            THEN /\ Len(db'.chat_messages) = Len(db.chat_messages) + 2
                 /\ SubSeq(db'.chat_messages, 1, Len(db.chat_messages)) = db.chat_messages
                 /\ \E u \in {db'.chat_messages[Len(db.chat_messages) + 1]},
                       r \in {db'.chat_messages[Len(db.chat_messages) + 2]} :
                       /\ u.role = "user" /\ u.content = t.message
                       /\ u.session_id = t.sessionId /\ u.user_id = t.userId
                       /\ r.role = "assistant" /\ r.content = out'.response
                       /\ r.session_id = t.sessionId /\ r.user_id = t.userId
                       /\ r.tokens_used = out'.tokensUsed
                       /\ u.id < r.id
                 /\ IF detectMessageType(t.message) = "blessing"
                    THEN /\ Len(db'.guest_messages) = Len(db.guest_messages) + 1
                         /\ SubSeq(db'.guest_messages, 1, Len(db.guest_messages))
                               = db.guest_messages
                         /\ \E g \in {db'.guest_messages[Len(db'.guest_messages)]} :
                               /\ g.content = t.message
                               /\ g.message_type = "blessing"
                               /\ g.session_id = t.sessionId /\ g.user_id = t.userId
                    ELSE db'.guest_messages = db.guest_messages
                 /\ out'.sessionId = t.sessionId
                 /\ out'.messageType = detectMessageType(t.message)
            ELSE /\ \E other \in db.chat_sessions :
                       other.id = t.sessionId /\ other.user_id # t.userId
                 /\ db' = db]_vars

\* a blessing was answered and its copy stored
C20_Witness ==
    /\ out.op = "llmResponse"
    /\ out.status = 200
    /\ out.messageType = "blessing"
    /\ \E g \in Range(db.guest_messages) : g.content = out.turn.message
    /\ \E r \in Range(db.chat_messages) :
          r.role = "assistant" /\ r.content = out.response /\ r.tokens_used = out.tokensUsed

HasBlessingMarker(message) == \E kw \in blessingKeywords : Contains(message, kw)
HasQuestionMarker(message) == \E kw \in questionKeywords : Contains(message, kw)
HasBlessingOpener(message) ==
    StartsWith(message, <<"zhu">>) \/ StartsWith(message, <<"gong", "xi">>)

\* C21: a message with a blessing marker and no question marker is a
\* blessing; otherwise one with a question marker is a question; otherwise
\* one that starts with a blessing opener is a blessing; otherwise it is a
\* plain message.  A message with both kinds of marker is a question.
C21_ClassificationPrecedence ==
    out.op = "detectMessageType" =>
        /\ out.messageType =
              (IF HasBlessingMarker(out.message) /\ ~HasQuestionMarker(out.message)
               THEN "blessing"
               ELSE IF HasQuestionMarker(out.message) THEN "question"
               ELSE IF HasBlessingOpener(out.message) THEN "blessing"
               ELSE "message")
        /\ (HasBlessingMarker(out.message) /\ HasQuestionMarker(out.message)
              => out.messageType = "question")

\* a message with a blessing marker and a question marker was classified
C21_Witness ==
    /\ out.op = "detectMessageType"
    /\ HasBlessingMarker(out.message)
    /\ HasQuestionMarker(out.message)
    /\ out.messageType = "question"

\* C22: a provider answer without text is not handed on as a normal result:
\* every turn that ends with a reply (status 200, the reply persisted as
\* the assistant message) carries a non-empty text.
C22_EmptyOutputDistinct ==
    (out.op = "llmResponse" /\ out.status = 200) =>
        /\ Len(out.response) > 0
        /\ \A m \in Range(db.chat_messages) :
              (m.role = "assistant" /\ m.session_id = out.sessionId) => Len(m.content) > 0

\* C23: a failed generation leaves the turn with its kind: the answer of the
\* turn carries the status of the kind of the failure (503 connection refused,
\* 504 timeout, the provider's status for an error response)
C23_FailureKindAtBoundary ==
    (out.op = "llmResponse" /\ "caught" \in DOMAIN out) =>
        out.status = getErrorInfoForLLMError(out.caught).statusCode

\* C24: there is at most one session per session id, and no step changes the
\* tenant of a session that exists before and after the step
C24_SessionBoundToOneTenant ==
    [][ /\ \A s, t \in db'.chat_sessions : s.id = t.id => s = t
        /\ \A s \in db.chat_sessions : \A t \in db'.chat_sessions :
              s.id = t.id => s.user_id = t.user_id ]_vars

\* a tenant asked for a turn on the session of another tenant, which is still
\* the session of its owner
C24_Witness ==
    /\ out.op = "postMessage"
    /\ out.status = 500
    /\ out.cause = "collision"
    /\ \E s \in db.chat_sessions : s.id = out.requested /\ s.user_id # out.userId
    /\ \E s \in db.chat_sessions : s.title \in Titles

\* C25: the store holds no orphans: every chunk belongs to a stored document
\* and every message and curated message belongs to a stored session, also
\* after documents and sessions were deleted
C25_NoOrphans ==
    /\ \A c \in Range(db.knowledge_chunks) :
          \E doc \in Range(db.knowledge_documents) : doc.id = c.document_id
    /\ \A m \in Range(db.chat_messages) \cup Range(db.guest_messages) :
          \E s \in db.chat_sessions : s.id = m.session_id

\* a session that had messages and a curated message was deleted, after a
\* document with chunks had been deleted
C25_Witness ==
    /\ out.op = "deleteSession"
    /\ out.status = 200
    /\ db.seq.guest_messages > Len(db.guest_messages)
    /\ db.seq.chat_messages > Len(db.chat_messages)
    /\ db.seq.knowledge_chunks > Len(db.knowledge_chunks)

\* C26: a turn that waits for the provider holds nothing back: every waiting
\* turn can be answered whatever the others do, and a new turn, a clear and a
\* delete on any session can run while turns are waiting
C26_StalledTurnBlocksOnlyItself ==
    pending # <<>> =>
        /\ \A j \in DOMAIN pending :
              ENABLED (LLMSuccess(j, <<"R">>, 1, 0) /\ UNCHANGED ckVars)
        /\ \A sessionId \in LifeSessionIds :
              /\ ENABLED (PostMessage(StallUser, sessionId, <<"zhu", "fu">>, "Li", 0, "none")
                             /\ UNCHANGED <<knowledgeMode, ckVars>>)
              /\ ENABLED (ClearHistory(StallUser, sessionId) /\ UNCHANGED ckVars)
              /\ ENABLED (DeleteSession(StallUser, sessionId) /\ UNCHANGED ckVars)

\* a turn was answered while a turn on another session, begun before it, is
\* still waiting for the provider
C26_Witness ==
    /\ out.op = "llmResponse"
    /\ out.status = 200
    /\ \E i \in DOMAIN pending :
          /\ pending[i].sessionId # out.sessionId
          /\ pending[i].seqAtStart < out.turn.seqAtStart

\* C27: an upload of a file of more than 10 MiB or of a format outside the
\* allow-list fails at validation, an upload of a file whose text is empty or
\* all whitespace fails after parsing, and neither writes a row
C27_RejectedUploadWritesNothing ==
    [][ \A file \in Files :
          (out'.op = "uploadDocument" /\ out'.file = file.originalname) =>
             /\ (file.size > 10 * 1024 * 1024
                    \/ file.ext \notin {"pdf", "docx", "doc", "txt", "md", "markdown"})
                   => (out'.err = "invalid_file" /\ db' = db)
             /\ (\A i \in DOMAIN file.raw : file.raw[i] \in Whitespace)
                   => (out'.err \in {"invalid_file", "no_text"} /\ db' = db) ]_vars

\* a file of more than 10 MiB was refused by a store that holds documents
C27_Witness ==
    /\ out.op = "uploadDocument"
    /\ out.file = HugeFile.originalname
    /\ out.err = "invalid_file"
    /\ db.knowledge_chunks # <<>>

\* C28: a stored document has a format of the allow-list, and an upload of a
\* file that passes validation and has text is not refused by the format
\* constraint of the documents table
C28_StorageAgreesWithAllowList ==
    /\ \A doc \in Range(db.knowledge_documents) : doc.file_type \in AllowedTypes
    /\ \A file \in Files :
          (/\ out.op = "uploadDocument"
           /\ out.file = file.originalname
           /\ validateFile(file.size, file.ext)
           /\ Len(parseDocument(file)) > 0)
             => out.err # "constraint"

\* C29: a step leaves every persisted message as it is, unless the step is a
\* clear of the message's session by its owner or the deletion of its
\* session, which remove the message
C29_MessagesAppendOnly ==
    [][ \A m \in Range(db.chat_messages) :
          \/ m \in Range(db'.chat_messages)
          \/ /\ \A n \in Range(db'.chat_messages) : n.id # m.id
             /\ \/ /\ out'.op = "clearHistory"
                   /\ out'.sessionId = m.session_id
                   /\ out'.userId = m.user_id
                   /\ \E s \in db.chat_sessions : s.id = m.session_id /\ s.user_id = out'.userId
                \/ /\ out'.op = "deleteSession"
                   /\ out'.sessionId = m.session_id
                   /\ \A s \in db'.chat_sessions : s.id # m.session_id ]_vars

\* the owner cleared a session that had messages, and the messages of the
\* other session are still there
C29_Witness ==
    /\ out.op = "clearHistory"
    /\ out.status = 200
    /\ \E s \in db.chat_sessions : s.id = out.sessionId /\ s.user_id = out.userId
    /\ \A m \in Range(db.chat_messages) : m.session_id # out.sessionId
    /\ db.chat_messages # <<>>
    /\ db.seq.chat_messages > Len(db.chat_messages)

\* C30: the chunks of a document carry the indexes 0, 1, ... in the order in
\* which they were stored, without gap or duplicate; an upload that succeeds
\* reports the number of chunks stored for its document, they are the chunks
\* of the chunker in its order, and a text of at most 500 characters gives
\* one chunk with index 0
C30_ChunkIndexes ==
    /\ \A doc \in Range(db.knowledge_documents) :
          \A cs \in {SelectSeq(db.knowledge_chunks, LAMBDA c : c.document_id = doc.id)} :
             \A i \in DOMAIN cs : cs[i].chunk_index = i - 1
    /\ (out.op = "uploadDocument" /\ out.err = "none") =>
          \E doc \in Range(db.knowledge_documents) :
             /\ doc.id = out.documentId
             /\ \A cs \in {SelectSeq(db.knowledge_chunks, LAMBDA c : c.document_id = doc.id)} :
                   /\ out.chunksCount = Len(cs)
                   /\ Len(cs) >= 1
                   /\ Len(doc.content_text) <= 500 => (Len(cs) = 1 /\ cs[1].chunk_text = doc.content_text)
                   /\ \A chunked \in {chunkText(doc.content_text, 500, 50)} :
                         /\ Len(chunked.chunks) = Len(cs)
                         /\ \A i \in DOMAIN cs :
                               /\ i > 1 => cs[i].id > cs[i - 1].id
                               /\ cs[i].chunk_text = chunked.chunks[i]

\* an upload stored a document of more than one chunk next to a document of
\* one chunk
C30_Witness ==
    /\ out.op = "uploadDocument"
    /\ out.err = "none"
    /\ out.chunksCount > 1
    /\ \E doc \in Range(db.knowledge_documents) :
          /\ Len(doc.content_text) <= 500
          /\ Cardinality({c \in Range(db.knowledge_chunks) : c.document_id = doc.id}) = 1

\* C31: a turn without authentication runs as tenant 0: on a session id that
\* does not exist it creates the session of tenant 0, stores the greeting and
\* answers with it
C31_AnonymousTurnUnderTenantZero ==
    (/\ out.op = "postMessage"
     /\ out.userId = Anonymous
     /\ ~out.existed
     /\ out.status # 400) =>
        /\ out.status = 200
        /\ out.response = generateGreeting("") \/ out.response = generateGreeting("Li")
        /\ \E s \in db.chat_sessions : s.id = out.sessionId /\ s.user_id = Anonymous

\* C32: every message and curated message has the tenant of its session and
\* every chunk the tenant of its document, and what a tenant reads (messages,
\* recent messages, sessions, curated messages) are rows of that tenant in
\* sessions of that tenant
C32_TenantColumnsAgree ==
    /\ \A m \in Range(db.chat_messages) \cup Range(db.guest_messages) :
          \A s \in db.chat_sessions : s.id = m.session_id => s.user_id = m.user_id
    /\ \A c \in Range(db.knowledge_chunks) :
          \A doc \in Range(db.knowledge_documents) :
             doc.id = c.document_id => doc.user_id = c.user_id
    /\ \A A \in UserIds :
          /\ \A s \in getUserSessions(db, A) : s.user_id = A
          /\ \A rows \in getGuestMessages(db, A, "", FALSE) :
                \A i \in DOMAIN rows :
                   /\ rows[i].user_id = A
                   /\ \A s \in SessionOf(db, rows[i].session_id) : s.user_id = A
          /\ \A sessionId \in LifeSessionIds :
                \A rows \in getMessages(db, sessionId, A)
                              \cup getRecentMessages(db, sessionId, A, HistoryLimit) :
                   \A i \in DOMAIN rows :
                      /\ rows[i].user_id = A
                      /\ \A s \in SessionOf(db, sessionId) : s.user_id = A

\* the answer to a turn arrived after its session had been deleted and the
\* session id had become a session of the other tenant: nothing was written
\* under it
C32_Witness ==
    /\ out.op = "llmResponse"
    /\ out.status = 500
    /\ "code" \notin DOMAIN out
    /\ \E s \in db.chat_sessions : s.id = out.turn.sessionId /\ s.user_id # out.userId
    /\ db.chat_messages # <<>>
    /\ db.knowledge_chunks # <<>>

\* C33: a session comes into being only in the greeting step of a first
\* turn, which stores the greeting as the only message of the session; the
\* answer to a turn whose session was deleted meanwhile creates no session
\* and stores no message
C33_SessionOnlyThroughGreeting ==
    [][ \A s \in db'.chat_sessions :
          (\A t \in db.chat_sessions : t.id # s.id) =>
             /\ out'.op = "postMessage"
             /\ out'.status = 200
             /\ out'.sessionId = s.id
             /\ \E m \in Range(db'.chat_messages) :
                   /\ m.session_id = s.id
                   /\ m.role = "assistant"
                   /\ m.content = out'.response
                   /\ \A n \in Range(db'.chat_messages) : n.session_id = s.id => n = m ]_vars

\* C34: the answer to a turn appends its user message and, right behind it,
\* its reply, whatever other turns on the session are waiting or were
\* answered meanwhile; so every stored user message is followed in insertion
\* order by the reply of its turn
C34_TurnWritesAdjacent ==
    [][ /\ (out'.op = "llmResponse" /\ out'.status = 200 /\ Len(pending') < Len(pending)) =>
              \E n \in {Len(db.chat_messages)} :
                 /\ Len(db'.chat_messages) = n + 2
                 /\ SubSeq(db'.chat_messages, 1, n) = db.chat_messages
                 /\ db'.chat_messages[n + 1].role = "user"
                 /\ db'.chat_messages[n + 1].content = out'.turn.message
                 /\ db'.chat_messages[n + 2].role = "assistant"
                 /\ db'.chat_messages[n + 2].id = db'.chat_messages[n + 1].id + 1
                 /\ db'.chat_messages[n + 2].session_id = out'.turn.sessionId
                 /\ db'.chat_messages[n + 1].session_id = out'.turn.sessionId
        /\ \A u \in Range(db'.chat_messages) :
              u.role = "user" =>
                 \E r \in Range(db'.chat_messages) :
                    r.id = u.id + 1 /\ r.role = "assistant" /\ r.session_id = u.session_id
      ]_vars

\* two turns on one session waited at the same time; the one begun first was
\* answered last, behind the two messages of the other
C34_Witness ==
    /\ out.op = "llmResponse"
    /\ out.status = 200
    /\ out.userMessageId = out.turn.seqAtStart + 3
    /\ \E u \in Range(db.chat_messages) :
          /\ u.id = out.turn.seqAtStart + 1
          /\ u.role = "user"
          /\ u.session_id = out.sessionId
    /\ \E r \in Range(db.chat_messages) :
          r.id = out.userMessageId + 1 /\ r.role = "assistant" /\ r.session_id = out.sessionId

\* the system contents that reach the provider with the request
SystemContentsSent(provider, messages) ==
    IF provider = "anthropic"
    THEN Range(anthropicChatCompletion(messages).system)
    ELSE IF provider = "gemini"
    THEN UNION {Range(c.prepended) : c \in Range(geminiChatCompletion(messages).contents)}
    ELSE {m.content : m \in {x \in Range(openAIChatCompletion(messages).messages) :
                                  x.role = "system"}}

\* C35: whatever the provider and the history, also a history that begins
\* with the greeting, the request that goes to the provider holds the content
\* of the system message
C35_SystemMessageSent ==
    \A i \in DOMAIN pending : \A provider \in Providers :
        \A m \in Range(pending[i].sent) :
            m.role = "system" => m.content \in SystemContentsSent(provider, pending[i].sent)

\* C36: a clear of session s by tenant T removes the messages of s that are
\* T's and nothing else: sessions, curated messages, documents and all other
\* messages stay, and nothing changes when s is not T's.  A turn on a session
\* of the caller that holds no message is an ordinary turn with an empty
\* history, not a greeting
C36_ClearFrame ==
    [][ /\ out'.op = "clearHistory" =>
              /\ db'.chat_sessions = db.chat_sessions
              /\ db'.guest_messages = db.guest_messages
              /\ db'.knowledge_documents = db.knowledge_documents
              /\ db'.knowledge_chunks = db.knowledge_chunks
              /\ \A m \in Range(db.chat_messages) :
                    m \in Range(db'.chat_messages)
                       <=> ~(/\ out'.status = 200
                             /\ m.session_id = out'.sessionId
                             /\ m.user_id = out'.userId)
              /\ Range(db'.chat_messages) \subseteq Range(db.chat_messages)
              /\ (\A s \in db.chat_sessions :
                     s.id = out'.sessionId => s.user_id # out'.userId) => db' = db
        /\ (/\ out'.op = "postMessage"
            /\ out'.status # 400
            /\ OwnSession(db, out'.requested, out'.userId) # {}
            /\ Len(MessagesOf(db, out'.requested, out'.userId)) = 0) =>
              /\ out'.status = 0
              /\ db' = db
              /\ Len(pending') = Len(pending) + 1
              /\ pending'[Len(pending')].history = <<>>
      ]_vars

\* a turn began on a session that its owner had cleared after a blessing: the
\* session and its curated message are there, its messages are gone, the
\* history is empty
C36_Witness ==
    /\ out.op = "postMessage"
    /\ out.status = 0
    /\ OwnSession(db, out.sessionId, out.userId) # {}
    /\ Len(MessagesOf(db, out.sessionId, out.userId)) = 0
    /\ pending # <<>>
    /\ pending[Len(pending)].history = <<>>
    /\ \E g \in Range(db.guest_messages) : g.session_id = out.sessionId

\* C37: marking curated message id as read for tenant T sets the flag of that
\* message if it is T's and changes nothing else; no step takes a flag back
\* from read to unread; the list of T's unread curated messages of a kind
\* holds exactly the unread curated messages of T of that kind
C37_ReadFlag ==
    [][ /\ out'.op = "markGuestMessageAsRead" =>
              /\ Len(db'.guest_messages) = Len(db.guest_messages)
              /\ \A i \in DOMAIN db.guest_messages :
                    db'.guest_messages[i] =
                       IF /\ db.guest_messages[i].id = out'.messageId
                          /\ db.guest_messages[i].user_id = out'.userId
                       THEN [db.guest_messages[i] EXCEPT !.is_read = 1]
                       ELSE db.guest_messages[i]
              /\ [db' EXCEPT !.guest_messages = <<>>] = [db EXCEPT !.guest_messages = <<>>]
        /\ \A g \in Range(db.guest_messages) : \A h \in Range(db'.guest_messages) :
              (g.id = h.id /\ g.is_read = 1) => h.is_read = 1
        /\ (out'.op = "getGuestMessages" /\ out'.unreadOnly) =>
              /\ Range(out'.ids) =
                    {g.id : g \in {x \in Range(db.guest_messages) :
                                      /\ x.user_id = out'.userId
                                      /\ x.is_read = 0
                                      /\ out'.messageType \in {"", x.message_type}}}
              /\ Len(out'.ids) = Cardinality(Range(out'.ids))
      ]_vars

\* both tenants hold a blessing, one of them read, and the list of the
\* unread blessings of the tenant who read hers is empty
C37_Witness ==
    /\ out.op = "getGuestMessages"
    /\ out.unreadOnly
    /\ out.messageType = "blessing"
    /\ out.ids = <<>>
    /\ \E g \in Range(db.guest_messages) : g.user_id = out.userId /\ g.is_read = 1
    /\ \E g \in Range(db.guest_messages) : g.user_id # out.userId /\ g.is_read = 0

\* C38: a curated message appears only in the step that answers a turn whose
\* generation succeeded; the same step stores, right before it, the user
\* message of the turn with the same content, session and tenant, and the
\* kind of the curated message is the classification of that content.  A
\* turn that is rejected or whose generation fails adds none
C38_CuratedIsCopyOfTurn ==
    [][ /\ \A g \in Range(db'.guest_messages) :
              g \notin Range(db.guest_messages) =>
                 /\ out'.op = "llmResponse"
                 /\ "code" \notin DOMAIN out'
                 /\ Len(db'.guest_messages) = Len(db.guest_messages) + 1
                 /\ g.content = out'.turn.message
                 /\ g.message_type = detectMessageType(g.content)
                 /\ \E u \in Range(db'.chat_messages) :
                       /\ u.id = db.seq.chat_messages + 1
                       /\ u.role = "user"
                       /\ u.content = g.content
                       /\ u.session_id = g.session_id
                       /\ u.user_id = g.user_id
        /\ (out'.op = "postMessage" \/ (out'.op = "llmResponse" /\ "code" \in DOMAIN out')) =>
              db'.guest_messages = db.guest_messages
      ]_vars

\* the curated copy of a blessing stands next to the user message of its turn
C38_Witness ==
    /\ out.op = "llmResponse"
    /\ out.status = 200
    /\ \E g \in Range(db.guest_messages) : \E u \in Range(db.chat_messages) :
          /\ u.id = out.userMessageId
          /\ u.role = "user"
          /\ g.content = u.content
          /\ g.session_id = u.session_id
          /\ g.user_id = u.user_id
          /\ g.message_type = "blessing"
          /\ g.id = db.seq.guest_messages

(***************************************************************************)
(* Accounts and tokens: UserService (login, updateUserStatus, deleteUser), *)
(* authenticate and optionalAuthenticate                                   *)
(***************************************************************************)
MaxAuthMsgs == 3

\* the users table next to the other tables: is_active INTEGER DEFAULT 1,
\* last_login_at NULL (-1) until the first login.  Both users are registered,
\* and registration issued a token to each (generateToken)
AuthDb ==
    EmptyDb @@ [users |-> [u \in Users |-> [is_active |-> 1, last_login_at |-> -1]]]

\* what the Authorization header carries: nothing, a token that jwt.verify
\* rejects, a legacy token (no userId in the payload), or the token of a user
AuthTokens ==
    {[kind |-> "none"], [kind |-> "invalid"], [kind |-> "legacy"]}
        \cup {[kind |-> "user", userId |-> u] : u \in Users}

\* getUserById: the row, whatever its is_active
getUserById(d, userId) ==
    IF userId \in DOMAIN d.users THEN {d.users[userId]} ELSE {}

\* authenticate: 401 without a token, with a token that does not verify, and
\* when the user of the payload is missing or inactive; otherwise req.user
authenticate(d, token) ==
    IF token.kind \in {"none", "invalid"}
    THEN [status |-> 401, userId |-> 0]
    ELSE LET userId == IF token.kind = "user" THEN token.userId ELSE 0
             user == getUserById(d, userId)
         IN IF user = {} \/ \E u \in user : u.is_active = 0
            THEN [status |-> 401, userId |-> 0]
            ELSE [status |-> 0, userId |-> userId]

\* optionalAuthenticate followed by "req.user?.userId || 0": req.user is the
\* payload of every token that verifies and carries a userId
optionalAuthenticate(d, token) ==
    IF token.kind = "user" THEN token.userId ELSE Anonymous

\* UserService.login, for the username of userId
login(d, ts, userId, isPasswordValid) ==
    IF d.users[userId].is_active = 0
    THEN [err |-> "Account is disabled", db |-> d]
    ELSE IF ~isPasswordValid
    THEN [err |-> "Invalid username or password", db |-> d]
    ELSE [err |-> "none", db |-> [d EXCEPT !.users[userId].last_login_at = ts]]

updateUserStatus(d, userId, isActive) ==
    [d EXCEPT !.users[userId].is_active = IF isActive THEN 1 ELSE 0]

\* deleteUser: a soft delete
deleteUser(d, userId) == [d EXCEPT !.users[userId].is_active = 0]

InitAuth ==
    /\ Idle
    /\ db = AuthDb
    /\ now = 0
    /\ knowledgeMode = "rag"
    /\ pending = <<>>
    /\ out = NoOut

\* POST /api/auth/login
AuthLogin ==
    /\ \E userId \in Users, isPasswordValid \in BOOLEAN, tick \in Ticks(MaxNow) :
          \E r \in {login(db, now + tick, userId, isPasswordValid)} :
             /\ db' = r.db
             /\ now' = IF r.err = "none" THEN now + tick ELSE now
             /\ out' = [op |-> "login", userId |-> userId,
                        status |-> IF r.err = "none" THEN 200
                                   ELSE IF r.err = "Account is disabled" THEN 403
                                   ELSE 401]
    /\ UNCHANGED <<knowledgeMode, pending, ckVars>>

AuthSetStatus ==
    /\ \E userId \in Users, isActive \in BOOLEAN :
          /\ db' = updateUserStatus(db, userId, isActive)
          /\ out' = [op |-> "updateUserStatus", userId |-> userId, isActive |-> isActive]
    /\ UNCHANGED <<now, knowledgeMode, pending, ckVars>>

AuthDelete ==
    /\ \E userId \in Users :
          /\ db' = deleteUser(db, userId)
          /\ out' = [op |-> "deleteUser", userId |-> userId]
    /\ UNCHANGED <<now, knowledgeMode, pending, ckVars>>

\* GET /sessions, a route behind authenticate
AuthSessions ==
    /\ \E token \in AuthTokens :
          \E a \in {authenticate(db, token)} :
             out' = IF a.status = 401
                    THEN [op |-> "getSessions", token |-> token, status |-> 401]
                    ELSE [op |-> "getSessions", token |-> token, status |-> 200,
                          userId |-> a.userId,
                          sessions |-> getUserSessions(db, a.userId)]
    /\ UNCHANGED <<db, now, knowledgeMode, pending, ckVars>>

\* POST /message, behind optionalAuthenticate
AuthPost ==
    /\ db.seq.chat_messages + 2 * Len(pending) < MaxAuthMsgs
    /\ Len(pending) < MaxPending
    /\ \E token \in AuthTokens, sessionId \in LifeSessionIds :
          PostMessage(optionalAuthenticate(db, token), sessionId, <<"zhu", "fu">>,
                      "Li", 0, "none")
    /\ UNCHANGED <<knowledgeMode, ckVars>>

NextAuth == AuthLogin \/ AuthSetStatus \/ AuthDelete \/ AuthSessions \/ AuthPost \/ LifeRespond

SpecAuth == InitAuth /\ [][NextAuth]_vars

\* C39: once a user is inactive, no request with a token of that user is
\* taken under the identity of that user, neither on a route behind
\* authenticate nor on the conversation turn route, and no login of that
\* user succeeds
C39_DeactivatedTokenRefused ==
    [][ /\ (out'.op = "getSessions" /\ out'.status = 200) =>
              db.users[out'.userId].is_active = 1
        /\ (out'.op = "login" /\ out'.status = 200) =>
              db.users[out'.userId].is_active = 1
        /\ (out'.op = "postMessage" /\ out'.status \in {0, 200} /\ out'.userId \in Users) =>
              db.users[out'.userId].is_active = 1
      ]_vars

\* the part of C39 that the guarded routes and login do keep
C39_GuardedRoutesRefuse ==
    [][ /\ (out'.op = "getSessions" /\ out'.status = 200) =>
              db.users[out'.userId].is_active = 1
        /\ (out'.op = "login" /\ out'.status = 200) =>
              db.users[out'.userId].is_active = 1
      ]_vars

====
